---- MODULE Spec2Model ----
(***************************************************************************)
(* Model of two parts of the ns-3 802.11ad wifi module:                    *)
(*   - WifiPhy duration calculator with its A-MPDU accumulator             *)
(*     (src/wifi/model/wifi-phy.cc), specification Spec;                   *)
(*   - MgtFrame information element container                              *)
(*     (src/wifi/model/common-header.cc), specification SpecIE.            *)
(* Time values are integer nanoseconds.  The double m_totalAmpduNumSymbols *)
(* and the double numSymbols are IEEE 754 doubles: each is held as its     *)
(* value in real arithmetic plus the rounding it has picked up.            *)
(***************************************************************************)
EXTENDS Integers, Sequences, FiniteSets, TLC

VARIABLES m_totalAmpduSize, m_totalAmpduNumSymbols, status, probe, burst,
          m_map, heap, wire, ieStatus, ieLog, calc,
          m_itemList, modeStatic, creations

phyVars == <<m_totalAmpduSize, m_totalAmpduNumSymbols, status, probe, burst>>

ieVars == <<m_map, heap, wire, ieStatus, ieLog>>

calcVars == <<calc>>

modeVars == <<m_itemList, modeStatic, creations>>

vars == <<phyVars, ieVars, calcVars, modeVars>>

(***************************************************************************)
(* Bounds                                                                  *)
(***************************************************************************)
MaxSize == 1

MaxFrames == 3

MaxBody == 1

MaxInput == 6

\* The aggregate specification: frame sizes and frames of one aggregate
MaxAmpduSize == 4

MaxAmpduFrames == 4

\* The catalog specification: the sizes 0 .. MaxCalcSize of its calls, and
\* the frames committed since the accumulator was zero
MaxCalcSize == 8

MaxCalcFrames == 2

\* The longest Time the model tells apart, in ns: a longer one is held as
\* this value.
LongestTime == 2000000000

Sizes == 0 .. MaxSize

AmpduSizes == 0 .. MaxAmpduSize

\* The largest number of bytes the accumulator and one more frame can hold
MaxTotalSize ==
  IF MaxSize * MaxFrames > MaxAmpduSize * MaxAmpduFrames
  THEN MaxSize * MaxFrames
  ELSE MaxAmpduSize * MaxAmpduFrames

(***************************************************************************)
(* Arithmetic helpers                                                      *)
(***************************************************************************)
Ceil(a, b) == (a + b - 1) \div b

\* One symbol, in the unit in which symbol counts are held: every
\* numDataBitsPerSymbol of the transmit vectors below divides it.
SymbolUnit == 64 * 27 * 13

RECURSIVE SumSeq(_)
SumSeq(s) == IF s = <<>> THEN 0 ELSE Head(s) + SumSeq(Tail(s))

Abs(x) == IF x < 0 THEN 0 - x ELSE x

(***************************************************************************)
(* IEEE 754 double arithmetic on symbol counts                             *)
(* A double d stands for the number (d.u + d.e / 2^d.p) / SymbolUnit: d.u  *)
(* is the count in real arithmetic and d.e / 2^d.p, of magnitude below 1,  *)
(* is what rounding to 53 significant bits has added to it.                *)
(***************************************************************************)
\* 2^n modulo m, for m > 1
RECURSIVE Pow2Mod(_, _)
Pow2Mod(n, m) == IF n = 0 THEN 1 ELSE (2 * Pow2Mod(n - 1, m)) % m

\* The powers of two that fit a 32-bit integer, and the residues of the
\* powers of two modulo two symbols, each computed once.
PowersOfTwo == [n \in 0 .. 30 |-> Pow2Mod(n, 2147483647)]

ResiduesOfTwo == [n \in 0 .. 80 |-> Pow2Mod(n, 2 * SymbolUnit)]

Pow2(n) == PowersOfTwo[n]

\* e * 2^k, without raising 2 to a large power when e is 0
Scaled(e, k) == IF e = 0 THEN 0 ELSE e * Pow2(k)

\* e / 2^p in lowest terms; p is 0 when e is 0.
RECURSIVE Reduced(_, _, _)
Reduced(u, e, p) ==
  IF e = 0
  THEN [u |-> u, e |-> 0, p |-> 0]
  ELSE IF p > 0 /\ e % 2 = 0
       THEN Reduced(u, e \div 2, p - 1)
       ELSE [u |-> u, e |-> e, p |-> p]

DoubleZero == [u |-> 0, e |-> 0, p |-> 0]

\* Whether (u + tiny) / SymbolUnit >= 2^j, tiny having the sign of e.
AtLeastPow2(u, e, j) ==
  IF j >= 0
  THEN \/ u > SymbolUnit * Pow2(j)
       \/ (u = SymbolUnit * Pow2(j) /\ e >= 0)
  ELSE \/ u * Pow2(0 - j) > SymbolUnit
       \/ (u * Pow2(0 - j) = SymbolUnit /\ e >= 0)

\* The binary exponent of a positive number, searched downwards from j.
RECURSIVE ExponentFrom(_, _, _)
ExponentFrom(u, e, j) ==
  IF AtLeastPow2(u, e, j) THEN j ELSE ExponentFrom(u, e, j - 1)

\* The number of binary digits of n, for 0 < n < 2^18
RECURSIVE BinaryDigits(_)
BinaryDigits(n) == IF n = 0 THEN 0 ELSE 1 + BinaryDigits(n \div 2)

BitLengths == [n \in 1 .. 511 |-> BinaryDigits(n)]

BitLength(n) == IF n < 512 THEN BitLengths[n] ELSE 9 + BitLengths[n \div 512]

\* The binary exponent of a number whose integer part has the given number
\* of binary digits: one less at a power of two approached from below.
ExponentOver(u, e, digits) ==
  IF u = SymbolUnit * Pow2(digits - 1) /\ e < 0 THEN digits - 2 ELSE digits - 1

\* The binary exponent of (u + tiny) / SymbolUnit, u > 0
Exponent(u, e) ==
  IF u < SymbolUnit
  THEN ExponentFrom(u, e, -1)
  ELSE ExponentOver(u, e, BitLength(u \div SymbolUnit))

\* Round to nearest, ties to even, in steps.  With q fraction bits kept,
\* the number times 2^q is an integer plus (R + tn / td) / SymbolUnit - 2
\* for a residue R below two symbols; fl and rem are the quotient and the
\* remainder of num = R * td + tn + 2 * den by den = SymbolUnit * td.
HalfUp(fl, rem, den) ==
  IF 2 * rem > den \/ (2 * rem = den /\ fl % 2 = 1) THEN 1 ELSE 0

RoundUp(u, q, R, fl, rem, den) ==
  Reduced(u, SymbolUnit * (fl - 2 + HalfUp(fl, rem, den)) - R, q)

RoundQuotient(u, q, R, num, den) ==
  RoundUp(u, q, R, num \div den, num % den, den)

RoundScaled(u, q, R, td, tn) ==
  RoundQuotient(u, q, R, R * td + tn + 2 * SymbolUnit * td, SymbolUnit * td)

RoundAt(u, e, p, q) ==
  RoundScaled(u, q,
              ((u % (2 * SymbolUnit)) * ResiduesOfTwo[q]) % (2 * SymbolUnit),
              IF p > q THEN Pow2(p - q) ELSE 1,
              IF p > q THEN e ELSE Scaled(e, q - p))

\* The double nearest to (u + e / 2^p) / SymbolUnit, u > 0: 53 significant
\* bits, so 52 - exponent fraction bits.
RoundToDouble(u, e, p) == RoundAt(u, e, p, 52 - Exponent(u, e))

\* fl (a / n) for integers a >= 0 and n dividing SymbolUnit
DoubleQuotient(a, n) ==
  IF a = 0 THEN DoubleZero ELSE RoundToDouble(a * (SymbolUnit \div n), 0, 0)

\* fl (x + y) for doubles x, y > 0, p the finer of their two precisions
DoubleSumAt(x, y, p) ==
  RoundToDouble(x.u + y.u, Scaled(x.e, p - x.p) + Scaled(y.e, p - y.p), p)

\* fl (x + y) for doubles x, y >= 0
DoubleSum(x, y) ==
  IF x.u = 0 /\ x.e = 0
  THEN y
  ELSE IF y.u = 0 /\ y.e = 0
       THEN x
       ELSE DoubleSumAt(x, y, IF x.p > y.p THEN x.p ELSE y.p)

\* x <= n for a double x and an integer n
DoubleAtMost(x, n) ==
  x.u < n * SymbolUnit \/ (x.u = n * SymbolUnit /\ x.e <= 0)

\* fl (n - x) for an integer n and a double x <= n; when the real parts are
\* equal the difference is the rounding part of x, which is a double.
DoubleDifference(n, x) ==
  IF n * SymbolUnit = x.u
  THEN Reduced(0, 0 - x.e, x.p)
  ELSE RoundToDouble(n * SymbolUnit - x.u, 0 - x.e, x.p)

\* The integer n as a double
DoubleInteger(n) == [u |-> n * SymbolUnit, e |-> 0, p |-> 0]

\* ceil (x) for a double x >= 0
DoubleCeil(x) ==
  IF x.u % SymbolUnit = 0
  THEN x.u \div SymbolUnit + (IF x.e > 0 THEN 1 ELSE 0)
  ELSE x.u \div SymbolUnit + 1

\* The integer part of a double y >= 0
DoubleTruncated(y) ==
  IF y.u % SymbolUnit = 0 /\ y.e < 0
  THEN y.u \div SymbolUnit - 1
  ELSE y.u \div SymbolUnit

\* The integer part of fl (x * c) for a double x >= 0 and an integer c > 0.
DoubleTimesTruncated(x, c) ==
  IF x.e = 0 /\ x.u % SymbolUnit = 0
  THEN (x.u \div SymbolUnit) * c
  ELSE DoubleTruncated(RoundToDouble(x.u * c, x.e * c, x.p))

(***************************************************************************)
(* Enumerations (wifi-preamble.h, wifi-mode.h, wifi-phy.h)                 *)
(***************************************************************************)
WifiPreambles ==
  {"WIFI_PREAMBLE_LONG", "WIFI_PREAMBLE_SHORT", "WIFI_PREAMBLE_HT_MF",
   "WIFI_PREAMBLE_HT_GF", "WIFI_PREAMBLE_VHT", "WIFI_PREAMBLE_NONE"}

MpduTypes == {"NORMAL_MPDU", "MPDU_IN_AGGREGATE", "LAST_MPDU_IN_AGGREGATE"}

\* uint8_t incFlag: 1 commits, every other value (here 0) is a read-only
\* query.
IncFlags == {0, 1}

(***************************************************************************)
(* Mode catalog: the DSSS, HR-DSSS, ERP-OFDM and OFDM modes, the HT and VHT *)
(* modes the transmit vectors of this model use, and the DMG modes MCS0 to *)
(* MCS31.  CreateWifiMode gives class, code rate (1/1 where it is          *)
(* undefined) and constellation; CreateWifiMcs gives the class and the MCS *)
(* index only.                                                             *)
(***************************************************************************)
WifiModes ==
  ("DsssRate1Mbps" :>
     [modClass |-> "WIFI_MOD_CLASS_DSSS", codeRate |-> <<1, 1>>,
      constellation |-> 2, mcs |-> 0])
  @@ ("DsssRate2Mbps" :>
     [modClass |-> "WIFI_MOD_CLASS_DSSS", codeRate |-> <<1, 1>>,
      constellation |-> 4, mcs |-> 0])
  @@ ("DsssRate5_5Mbps" :>
     [modClass |-> "WIFI_MOD_CLASS_HR_DSSS", codeRate |-> <<1, 1>>,
      constellation |-> 16, mcs |-> 0])
  @@ ("DsssRate11Mbps" :>
     [modClass |-> "WIFI_MOD_CLASS_HR_DSSS", codeRate |-> <<1, 1>>,
      constellation |-> 256, mcs |-> 0])
  @@ ("ErpOfdmRate6Mbps" :>
     [modClass |-> "WIFI_MOD_CLASS_ERP_OFDM", codeRate |-> <<1, 2>>,
      constellation |-> 2, mcs |-> 0])
  @@ ("ErpOfdmRate9Mbps" :>
     [modClass |-> "WIFI_MOD_CLASS_ERP_OFDM", codeRate |-> <<3, 4>>,
      constellation |-> 2, mcs |-> 0])
  @@ ("ErpOfdmRate12Mbps" :>
     [modClass |-> "WIFI_MOD_CLASS_ERP_OFDM", codeRate |-> <<1, 2>>,
      constellation |-> 4, mcs |-> 0])
  @@ ("ErpOfdmRate18Mbps" :>
     [modClass |-> "WIFI_MOD_CLASS_ERP_OFDM", codeRate |-> <<3, 4>>,
      constellation |-> 4, mcs |-> 0])
  @@ ("ErpOfdmRate24Mbps" :>
     [modClass |-> "WIFI_MOD_CLASS_ERP_OFDM", codeRate |-> <<1, 2>>,
      constellation |-> 16, mcs |-> 0])
  @@ ("ErpOfdmRate36Mbps" :>
     [modClass |-> "WIFI_MOD_CLASS_ERP_OFDM", codeRate |-> <<3, 4>>,
      constellation |-> 16, mcs |-> 0])
  @@ ("ErpOfdmRate48Mbps" :>
     [modClass |-> "WIFI_MOD_CLASS_ERP_OFDM", codeRate |-> <<2, 3>>,
      constellation |-> 64, mcs |-> 0])
  @@ ("ErpOfdmRate54Mbps" :>
     [modClass |-> "WIFI_MOD_CLASS_ERP_OFDM", codeRate |-> <<3, 4>>,
      constellation |-> 64, mcs |-> 0])
  @@ ("OfdmRate6Mbps" :>
     [modClass |-> "WIFI_MOD_CLASS_OFDM", codeRate |-> <<1, 2>>,
      constellation |-> 2, mcs |-> 0])
  @@ ("OfdmRate9Mbps" :>
     [modClass |-> "WIFI_MOD_CLASS_OFDM", codeRate |-> <<3, 4>>,
      constellation |-> 2, mcs |-> 0])
  @@ ("OfdmRate12Mbps" :>
     [modClass |-> "WIFI_MOD_CLASS_OFDM", codeRate |-> <<1, 2>>,
      constellation |-> 4, mcs |-> 0])
  @@ ("OfdmRate18Mbps" :>
     [modClass |-> "WIFI_MOD_CLASS_OFDM", codeRate |-> <<3, 4>>,
      constellation |-> 4, mcs |-> 0])
  @@ ("OfdmRate24Mbps" :>
     [modClass |-> "WIFI_MOD_CLASS_OFDM", codeRate |-> <<1, 2>>,
      constellation |-> 16, mcs |-> 0])
  @@ ("OfdmRate36Mbps" :>
     [modClass |-> "WIFI_MOD_CLASS_OFDM", codeRate |-> <<3, 4>>,
      constellation |-> 16, mcs |-> 0])
  @@ ("OfdmRate48Mbps" :>
     [modClass |-> "WIFI_MOD_CLASS_OFDM", codeRate |-> <<2, 3>>,
      constellation |-> 64, mcs |-> 0])
  @@ ("OfdmRate54Mbps" :>
     [modClass |-> "WIFI_MOD_CLASS_OFDM", codeRate |-> <<3, 4>>,
      constellation |-> 64, mcs |-> 0])
  @@ ("OfdmRate3MbpsBW10MHz" :>
     [modClass |-> "WIFI_MOD_CLASS_OFDM", codeRate |-> <<1, 2>>,
      constellation |-> 2, mcs |-> 0])
  @@ ("OfdmRate4_5MbpsBW10MHz" :>
     [modClass |-> "WIFI_MOD_CLASS_OFDM", codeRate |-> <<3, 4>>,
      constellation |-> 2, mcs |-> 0])
  @@ ("OfdmRate6MbpsBW10MHz" :>
     [modClass |-> "WIFI_MOD_CLASS_OFDM", codeRate |-> <<1, 2>>,
      constellation |-> 4, mcs |-> 0])
  @@ ("OfdmRate9MbpsBW10MHz" :>
     [modClass |-> "WIFI_MOD_CLASS_OFDM", codeRate |-> <<3, 4>>,
      constellation |-> 4, mcs |-> 0])
  @@ ("OfdmRate12MbpsBW10MHz" :>
     [modClass |-> "WIFI_MOD_CLASS_OFDM", codeRate |-> <<1, 2>>,
      constellation |-> 16, mcs |-> 0])
  @@ ("OfdmRate18MbpsBW10MHz" :>
     [modClass |-> "WIFI_MOD_CLASS_OFDM", codeRate |-> <<3, 4>>,
      constellation |-> 16, mcs |-> 0])
  @@ ("OfdmRate24MbpsBW10MHz" :>
     [modClass |-> "WIFI_MOD_CLASS_OFDM", codeRate |-> <<2, 3>>,
      constellation |-> 64, mcs |-> 0])
  @@ ("OfdmRate27MbpsBW10MHz" :>
     [modClass |-> "WIFI_MOD_CLASS_OFDM", codeRate |-> <<3, 4>>,
      constellation |-> 64, mcs |-> 0])
  @@ ("OfdmRate1_5MbpsBW5MHz" :>
     [modClass |-> "WIFI_MOD_CLASS_OFDM", codeRate |-> <<1, 2>>,
      constellation |-> 2, mcs |-> 0])
  @@ ("OfdmRate2_25MbpsBW5MHz" :>
     [modClass |-> "WIFI_MOD_CLASS_OFDM", codeRate |-> <<3, 4>>,
      constellation |-> 2, mcs |-> 0])
  @@ ("OfdmRate3MbpsBW5MHz" :>
     [modClass |-> "WIFI_MOD_CLASS_OFDM", codeRate |-> <<1, 2>>,
      constellation |-> 4, mcs |-> 0])
  @@ ("OfdmRate4_5MbpsBW5MHz" :>
     [modClass |-> "WIFI_MOD_CLASS_OFDM", codeRate |-> <<3, 4>>,
      constellation |-> 4, mcs |-> 0])
  @@ ("OfdmRate6MbpsBW5MHz" :>
     [modClass |-> "WIFI_MOD_CLASS_OFDM", codeRate |-> <<1, 2>>,
      constellation |-> 16, mcs |-> 0])
  @@ ("OfdmRate9MbpsBW5MHz" :>
     [modClass |-> "WIFI_MOD_CLASS_OFDM", codeRate |-> <<3, 4>>,
      constellation |-> 16, mcs |-> 0])
  @@ ("OfdmRate12MbpsBW5MHz" :>
     [modClass |-> "WIFI_MOD_CLASS_OFDM", codeRate |-> <<2, 3>>,
      constellation |-> 64, mcs |-> 0])
  @@ ("OfdmRate13_5MbpsBW5MHz" :>
     [modClass |-> "WIFI_MOD_CLASS_OFDM", codeRate |-> <<3, 4>>,
      constellation |-> 64, mcs |-> 0])
  @@ ("HtMcs0" :>
     [modClass |-> "WIFI_MOD_CLASS_HT", codeRate |-> <<1, 2>>,
      constellation |-> 2, mcs |-> 0])
  @@ ("HtMcs21" :>
     [modClass |-> "WIFI_MOD_CLASS_HT", codeRate |-> <<2, 3>>,
      constellation |-> 64, mcs |-> 21])
  @@ ("VhtMcs0" :>
     [modClass |-> "WIFI_MOD_CLASS_VHT", codeRate |-> <<1, 2>>,
      constellation |-> 2, mcs |-> 0])
  @@ ("DMG_MCS0" :>
     [modClass |-> "WIFI_MOD_CLASS_DMG_CTRL", codeRate |-> <<1, 2>>,
      constellation |-> 2, mcs |-> 0])
  @@ ("DMG_MCS1" :>
     [modClass |-> "WIFI_MOD_CLASS_DMG_SC", codeRate |-> <<1, 4>>,
      constellation |-> 2, mcs |-> 0])
  @@ ("DMG_MCS2" :>
     [modClass |-> "WIFI_MOD_CLASS_DMG_SC", codeRate |-> <<1, 2>>,
      constellation |-> 2, mcs |-> 0])
  @@ ("DMG_MCS3" :>
     [modClass |-> "WIFI_MOD_CLASS_DMG_SC", codeRate |-> <<5, 8>>,
      constellation |-> 2, mcs |-> 0])
  @@ ("DMG_MCS4" :>
     [modClass |-> "WIFI_MOD_CLASS_DMG_SC", codeRate |-> <<3, 4>>,
      constellation |-> 2, mcs |-> 0])
  @@ ("DMG_MCS5" :>
     [modClass |-> "WIFI_MOD_CLASS_DMG_SC", codeRate |-> <<13, 16>>,
      constellation |-> 2, mcs |-> 0])
  @@ ("DMG_MCS6" :>
     [modClass |-> "WIFI_MOD_CLASS_DMG_SC", codeRate |-> <<1, 2>>,
      constellation |-> 4, mcs |-> 0])
  @@ ("DMG_MCS7" :>
     [modClass |-> "WIFI_MOD_CLASS_DMG_SC", codeRate |-> <<5, 8>>,
      constellation |-> 4, mcs |-> 0])
  @@ ("DMG_MCS8" :>
     [modClass |-> "WIFI_MOD_CLASS_DMG_SC", codeRate |-> <<3, 4>>,
      constellation |-> 4, mcs |-> 0])
  @@ ("DMG_MCS9" :>
     [modClass |-> "WIFI_MOD_CLASS_DMG_SC", codeRate |-> <<13, 16>>,
      constellation |-> 4, mcs |-> 0])
  @@ ("DMG_MCS10" :>
     [modClass |-> "WIFI_MOD_CLASS_DMG_SC", codeRate |-> <<1, 2>>,
      constellation |-> 16, mcs |-> 0])
  @@ ("DMG_MCS11" :>
     [modClass |-> "WIFI_MOD_CLASS_DMG_SC", codeRate |-> <<5, 8>>,
      constellation |-> 16, mcs |-> 0])
  @@ ("DMG_MCS12" :>
     [modClass |-> "WIFI_MOD_CLASS_DMG_SC", codeRate |-> <<3, 4>>,
      constellation |-> 16, mcs |-> 0])
  @@ ("DMG_MCS13" :>
     [modClass |-> "WIFI_MOD_CLASS_DMG_OFDM", codeRate |-> <<1, 2>>,
      constellation |-> 2, mcs |-> 0])
  @@ ("DMG_MCS14" :>
     [modClass |-> "WIFI_MOD_CLASS_DMG_OFDM", codeRate |-> <<5, 8>>,
      constellation |-> 2, mcs |-> 0])
  @@ ("DMG_MCS15" :>
     [modClass |-> "WIFI_MOD_CLASS_DMG_OFDM", codeRate |-> <<1, 2>>,
      constellation |-> 4, mcs |-> 0])
  @@ ("DMG_MCS16" :>
     [modClass |-> "WIFI_MOD_CLASS_DMG_OFDM", codeRate |-> <<5, 8>>,
      constellation |-> 4, mcs |-> 0])
  @@ ("DMG_MCS17" :>
     [modClass |-> "WIFI_MOD_CLASS_DMG_OFDM", codeRate |-> <<3, 4>>,
      constellation |-> 4, mcs |-> 0])
  @@ ("DMG_MCS18" :>
     [modClass |-> "WIFI_MOD_CLASS_DMG_OFDM", codeRate |-> <<1, 2>>,
      constellation |-> 16, mcs |-> 0])
  @@ ("DMG_MCS19" :>
     [modClass |-> "WIFI_MOD_CLASS_DMG_OFDM", codeRate |-> <<5, 8>>,
      constellation |-> 16, mcs |-> 0])
  @@ ("DMG_MCS20" :>
     [modClass |-> "WIFI_MOD_CLASS_DMG_OFDM", codeRate |-> <<3, 4>>,
      constellation |-> 16, mcs |-> 0])
  @@ ("DMG_MCS21" :>
     [modClass |-> "WIFI_MOD_CLASS_DMG_OFDM", codeRate |-> <<13, 16>>,
      constellation |-> 16, mcs |-> 0])
  @@ ("DMG_MCS22" :>
     [modClass |-> "WIFI_MOD_CLASS_DMG_OFDM", codeRate |-> <<5, 8>>,
      constellation |-> 64, mcs |-> 0])
  @@ ("DMG_MCS23" :>
     [modClass |-> "WIFI_MOD_CLASS_DMG_OFDM", codeRate |-> <<3, 4>>,
      constellation |-> 64, mcs |-> 0])
  @@ ("DMG_MCS24" :>
     [modClass |-> "WIFI_MOD_CLASS_DMG_OFDM", codeRate |-> <<13, 16>>,
      constellation |-> 64, mcs |-> 0])
  @@ ("DMG_MCS25" :>
     [modClass |-> "WIFI_MOD_CLASS_DMG_LP_SC", codeRate |-> <<13, 28>>,
      constellation |-> 2, mcs |-> 0])
  @@ ("DMG_MCS26" :>
     [modClass |-> "WIFI_MOD_CLASS_DMG_LP_SC", codeRate |-> <<13, 21>>,
      constellation |-> 2, mcs |-> 0])
  @@ ("DMG_MCS27" :>
     [modClass |-> "WIFI_MOD_CLASS_DMG_LP_SC", codeRate |-> <<52, 63>>,
      constellation |-> 2, mcs |-> 0])
  @@ ("DMG_MCS28" :>
     [modClass |-> "WIFI_MOD_CLASS_DMG_LP_SC", codeRate |-> <<13, 28>>,
      constellation |-> 2, mcs |-> 0])
  @@ ("DMG_MCS29" :>
     [modClass |-> "WIFI_MOD_CLASS_DMG_LP_SC", codeRate |-> <<13, 21>>,
      constellation |-> 4, mcs |-> 0])
  @@ ("DMG_MCS30" :>
     [modClass |-> "WIFI_MOD_CLASS_DMG_LP_SC", codeRate |-> <<52, 63>>,
      constellation |-> 4, mcs |-> 0])
  @@ ("DMG_MCS31" :>
     [modClass |-> "WIFI_MOD_CLASS_DMG_LP_SC", codeRate |-> <<13, 14>>,
      constellation |-> 4, mcs |-> 0])

\* Modes outside the catalog that a caller can hold: the default-constructed
\* WifiMode (class WIFI_MOD_CLASS_UNKNOWN) and modes made with
\* WifiModeFactory::CreateWifiMode whose code rate or constellation size the
\* DMG branches do not know.
ForeignModes ==
  [m \in {"Invalid-WifiMode", "ForeignScRate5_6", "ForeignScConstellation8",
          "ForeignOfdmRate5_6", "ForeignOfdmConstellation256"} |->
     CASE m = "Invalid-WifiMode" ->
            [modClass |-> "WIFI_MOD_CLASS_UNKNOWN", codeRate |-> <<1, 1>>,
             constellation |-> 0, mcs |-> 0]
       [] m = "ForeignScRate5_6" ->
            [modClass |-> "WIFI_MOD_CLASS_DMG_SC", codeRate |-> <<5, 6>>,
             constellation |-> 2, mcs |-> 0]
       [] m = "ForeignScConstellation8" ->
            [modClass |-> "WIFI_MOD_CLASS_DMG_SC", codeRate |-> <<1, 2>>,
             constellation |-> 8, mcs |-> 0]
       [] m = "ForeignOfdmRate5_6" ->
            [modClass |-> "WIFI_MOD_CLASS_DMG_OFDM", codeRate |-> <<5, 6>>,
             constellation |-> 4, mcs |-> 0]
       [] m = "ForeignOfdmConstellation256" ->
            [modClass |-> "WIFI_MOD_CLASS_DMG_OFDM", codeRate |-> <<1, 2>>,
             constellation |-> 256, mcs |-> 0]]

AllModes == WifiModes @@ ForeignModes

\* The WifiMode an accessor returns, held as the item of the factory that
\* its unique name denotes.
WifiModeOf(uniqueName, item) ==
  [uniqueName |-> uniqueName, modClass |-> item.modClass,
   codeRate |-> item.codeRate, constellation |-> item.constellation,
   mcs |-> item.mcs]

WifiMode(uniqueName) == WifiModeOf(uniqueName, AllModes[uniqueName])

GetModulationClass(mode) == mode.modClass

GetMcsValue(mode) == mode.mcs

IsDmgClass(modClass) ==
  modClass \in {"WIFI_MOD_CLASS_DMG_CTRL", "WIFI_MOD_CLASS_DMG_LP_SC",
                "WIFI_MOD_CLASS_DMG_SC", "WIFI_MOD_CLASS_DMG_OFDM"}

\* WifiTxVector values the callers pass (all with the long guard interval).
TxVectors ==
  { [mode |-> WifiMode("OfdmRate6Mbps"), channelWidth |-> 20, nss |-> 1, ness |-> 0,
     shortGuardInterval |-> FALSE, stbc |-> FALSE],
    [mode |-> WifiMode("OfdmRate3MbpsBW5MHz"), channelWidth |-> 5, nss |-> 1, ness |-> 0,
     shortGuardInterval |-> FALSE, stbc |-> FALSE],
    [mode |-> WifiMode("ErpOfdmRate6Mbps"), channelWidth |-> 20, nss |-> 1, ness |-> 0,
     shortGuardInterval |-> FALSE, stbc |-> FALSE],
    [mode |-> WifiMode("HtMcs0"), channelWidth |-> 20, nss |-> 1, ness |-> 0,
     shortGuardInterval |-> FALSE, stbc |-> TRUE],
    [mode |-> WifiMode("HtMcs21"), channelWidth |-> 20, nss |-> 3, ness |-> 0,
     shortGuardInterval |-> FALSE, stbc |-> FALSE],
    [mode |-> WifiMode("VhtMcs0"), channelWidth |-> 20, nss |-> 1, ness |-> 0,
     shortGuardInterval |-> FALSE, stbc |-> FALSE],
    [mode |-> WifiMode("DsssRate1Mbps"), channelWidth |-> 22, nss |-> 1, ness |-> 0,
     shortGuardInterval |-> FALSE, stbc |-> FALSE] }

\* Operating frequencies in MHz: one in the 2.4 GHz band, one in the 5 GHz band.
Frequencies == {2412, 5180}

\* The bands a modulation class is used in: ERP-OFDM and DSSS at 2.4 GHz,
\* OFDM and VHT at 5 GHz, HT in both.
FrequenciesOf(txVector) ==
  CASE GetModulationClass(txVector.mode) = "WIFI_MOD_CLASS_HT" -> Frequencies
    [] GetModulationClass(txVector.mode)
         \in {"WIFI_MOD_CLASS_OFDM", "WIFI_MOD_CLASS_VHT"} -> {5180}
    [] IsDmgClass(GetModulationClass(txVector.mode)) -> {60480}
    [] OTHER -> {2412}

\* The preamble kinds a caller passes with a transmit vector: none, or a
\* preamble of the vector's modulation class.
PreamblesOf(txVector) ==
  {"WIFI_PREAMBLE_NONE"} \cup
  CASE GetModulationClass(txVector.mode) = "WIFI_MOD_CLASS_HT" ->
         {"WIFI_PREAMBLE_HT_MF", "WIFI_PREAMBLE_HT_GF"}
    [] GetModulationClass(txVector.mode) = "WIFI_MOD_CLASS_VHT" ->
         {"WIFI_PREAMBLE_VHT"}
    [] GetModulationClass(txVector.mode)
         \in {"WIFI_MOD_CLASS_DSSS", "WIFI_MOD_CLASS_HR_DSSS"} ->
         {"WIFI_PREAMBLE_LONG", "WIFI_PREAMBLE_SHORT"}
    [] OTHER -> {"WIFI_PREAMBLE_LONG"}

(***************************************************************************)
(* WifiMode::GetDataRate (wifi-mode.cc), in kbit/s, long guard interval    *)
(***************************************************************************)
Log2(c) ==
  CASE c = 2 -> 1 [] c = 4 -> 2 [] c = 16 -> 4 [] c = 64 -> 6 [] c = 256 -> 8

GetDataRate(mode, channelWidth, nss) ==
  LET m == mode
      bits == Log2(m.constellation)
      ofdmSymbolRate == CASE channelWidth = 10 -> 125000
                          [] channelWidth = 5 -> 62500
                          [] OTHER -> 250000
      usableSubCarriers == CASE channelWidth = 40 -> 108
                             [] channelWidth = 80 -> 234
                             [] channelWidth = 160 -> 468
                             [] OTHER -> 52
  IN CASE m.modClass = "WIFI_MOD_CLASS_DSSS" -> 1000 * bits
       [] m.modClass = "WIFI_MOD_CLASS_HR_DSSS" -> 1375 * bits
       [] m.modClass \in {"WIFI_MOD_CLASS_OFDM", "WIFI_MOD_CLASS_ERP_OFDM"} ->
            (((48 * ofdmSymbolRate) \div 1000) * bits * m.codeRate[1])
              \div m.codeRate[2]
       [] m.modClass \in {"WIFI_MOD_CLASS_HT", "WIFI_MOD_CLASS_VHT"} ->
            (((usableSubCarriers * 250 * bits * m.codeRate[1])
              \div m.codeRate[2])) * nss

(***************************************************************************)
(* WifiPhy::GetPayloadDuration, symbol-based classes                       *)
(***************************************************************************)
\* A variant of OfdmSymbolDuration that takes the symbol of a 20 MHz channel
\* for every channel width.
OfdmSymbolDurationOf20MHz(txVector) == 4000

\* Symbol duration in ns: by channel width for OFDM and ERP-OFDM, by guard
\* interval for HT and VHT.
OfdmSymbolDuration(txVector) ==
  CASE txVector.channelWidth = 10 -> 8000
    [] txVector.channelWidth = 5 -> 16000
    [] OTHER -> 4000

HtSymbolDuration(txVector) ==
  IF txVector.shortGuardInterval THEN 3600 ELSE 4000

\* numDataBitsPerSymbol = GetDataRate (...) * symbolDuration / 1e9
OfdmNumDataBitsPerSymbol(txVector) ==
  (GetDataRate(txVector.mode, txVector.channelWidth, 1)
     * (OfdmSymbolDuration(txVector) \div 100)) \div 10000

HtNumDataBitsPerSymbol(txVector) ==
  (GetDataRate(txVector.mode, txVector.channelWidth, txVector.nss)
     * (HtSymbolDuration(txVector) \div 100)) \div 10000

Stbc(txVector) == IF txVector.stbc THEN 2 ELSE 1

\* The encoder count: every "if" of the source in its order, a later match
\* overriding an earlier one.
GetNes(txVector) ==
  LET name == txVector.mode.uniqueName
      w == txVector.channelWidth
      nss == txVector.nss
      mcs == GetMcsValue(txVector.mode)
      rules ==
        << <<name \in {"HtMcs21", "HtMcs22", "HtMcs23", "HtMcs28", "HtMcs29",
                       "HtMcs30", "HtMcs31"}, 2>>,
           <<w = 40 /\ nss = 3 /\ mcs >= 8, 2>>,
           <<w = 80 /\ nss = 2 /\ mcs >= 7, 2>>,
           <<w = 80 /\ nss = 3 /\ mcs >= 7, 2>>,
           <<w = 80 /\ nss = 3 /\ mcs = 9, 3>>,
           <<w = 80 /\ nss = 4 /\ mcs >= 4, 2>>,
           <<w = 80 /\ nss = 4 /\ mcs >= 7, 3>>,
           <<w = 160 /\ name = "VhtMcs7" /\ mcs >= 7, 2>>,
           <<w = 160 /\ nss = 2 /\ mcs >= 4, 2>>,
           <<w = 160 /\ nss = 2 /\ mcs >= 7, 3>>,
           <<w = 160 /\ nss = 3 /\ mcs >= 3, 2>>,
           <<w = 160 /\ nss = 3 /\ mcs >= 5, 3>>,
           <<w = 160 /\ nss = 3 /\ mcs >= 7, 4>>,
           <<w = 160 /\ nss = 4 /\ mcs >= 2, 2>>,
           <<w = 160 /\ nss = 4 /\ mcs >= 4, 3>>,
           <<w = 160 /\ nss = 4 /\ mcs >= 5, 4>>,
           <<w = 160 /\ nss = 4 /\ mcs >= 7, 6>> >>
      hits == {i \in 1 .. Len(rules) : rules[i][1]}
  IN IF hits = {} THEN 1
     ELSE rules[CHOOSE i \in hits : \A j \in hits : j <= i][2]

IsSymbolClass(modClass) ==
  modClass \in {"WIFI_MOD_CLASS_OFDM", "WIFI_MOD_CLASS_ERP_OFDM",
                "WIFI_MOD_CLASS_HT", "WIFI_MOD_CLASS_VHT"}

IsOfdmClass(modClass) ==
  modClass \in {"WIFI_MOD_CLASS_OFDM", "WIFI_MOD_CLASS_ERP_OFDM"}

NumDataBitsPerSymbol(txVector) ==
  IF IsOfdmClass(GetModulationClass(txVector.mode))
  THEN OfdmNumDataBitsPerSymbol(txVector)
  ELSE HtNumDataBitsPerSymbol(txVector)

SymbolDuration(txVector) ==
  IF IsOfdmClass(GetModulationClass(txVector.mode))
  THEN OfdmSymbolDuration(txVector)
  ELSE HtSymbolDuration(txVector)

\* SERVICE and tail bits: 16 + 6 for OFDM, 16 + 6 * Nes for HT and VHT.
OverheadBits(txVector) ==
  IF IsOfdmClass(GetModulationClass(txVector.mode))
  THEN 16 + 6
  ELSE 16 + 6 * GetNes(txVector)

\* m_Stbc for HT and VHT; the OFDM formulas have no such factor.
StbcFactor(txVector) ==
  IF IsOfdmClass(GetModulationClass(txVector.mode)) THEN 1 ELSE Stbc(txVector)

\* First packet in an A-MPDU:
\* numSymbols = m_Stbc * (16 + size * 8.0 + 6 * Nes) / (m_Stbc * numDataBitsPerSymbol)
FirstNumSymbols(size, txVector) ==
  DoubleQuotient(StbcFactor(txVector) * (OverheadBits(txVector) + size * 8),
                 StbcFactor(txVector) * NumDataBitsPerSymbol(txVector))

\* A variant of MiddleNumSymbols that counts the service and tail bits on
\* every frame of the burst, as FirstNumSymbols does.
MiddleNumSymbolsWithOverhead(size, txVector) ==
  DoubleQuotient(StbcFactor(txVector) * (OverheadBits(txVector) + size * 8),
                 StbcFactor(txVector) * NumDataBitsPerSymbol(txVector))

\* Consecutive packets in an A-MPDU:
\* numSymbols = (m_Stbc * size * 8.0) / (m_Stbc * numDataBitsPerSymbol)
MiddleNumSymbols(size, txVector) ==
  DoubleQuotient(StbcFactor(txVector) * size * 8,
                 StbcFactor(txVector) * NumDataBitsPerSymbol(txVector))

\* lrint (m_Stbc * ceil ((16 + totalSize * 8 + 6 * Nes) / (m_Stbc * numDataBitsPerSymbol))):
\* the whole count of a complete frame or aggregate of totalSize bytes.
TotalNumSymbols(totalSize, txVector) ==
  StbcFactor(txVector)
    * DoubleCeil(DoubleQuotient(OverheadBits(txVector) + totalSize * 8,
                                StbcFactor(txVector) * NumDataBitsPerSymbol(txVector)))

\* A variant of Commits under which every call commits.
CommitsAlways(incFlag) == TRUE

\* if (incFlag == 1)
Commits(incFlag) == incFlag = 1

\* A variant of AfterLast that keeps the accumulated value over a Last.
AfterLastKept(total, zero, incFlag) == total

\* if (incFlag == 1) { m_totalAmpduSize = 0; m_totalAmpduNumSymbols = 0; }
AfterLast(total, zero, incFlag) == IF Commits(incFlag) THEN zero ELSE total

\* A variant of SymbolsToTime that takes the symbol of the short guard
\* interval for every transmit vector.
SymbolsToTimeOfShortGuard(numSymbols, txVector) ==
  DoubleTimesTruncated(numSymbols, 3600)

\* NanoSeconds (numSymbols * symbolDuration.GetNanoSeconds ()): the product
\* is a double, truncated to whole nanoseconds.
SymbolsToTime(numSymbols, txVector) ==
  DoubleTimesTruncated(numSymbols, SymbolDuration(txVector))

\* A variant of SignalExtension that adds the 6 us of HT at 2.4 GHz to
\* every frame.
SignalExtensionOnEveryFrame(txVector, preamble, frequency, mpdutype) ==
  LET modClass == GetModulationClass(txVector.mode)
  IN CASE modClass = "WIFI_MOD_CLASS_ERP_OFDM" -> 6000
       [] modClass = "WIFI_MOD_CLASS_OFDM" -> 0
       [] OTHER ->
            IF /\ modClass = "WIFI_MOD_CLASS_HT"
               /\ frequency >= 2400
               /\ frequency <= 2500
            THEN 6000
            ELSE 0

\* The 6 us added to the returned time: for ERP-OFDM on every call, for HT
\* at 2.4 GHz on a Normal MPDU or the Last MPDU of an aggregate.
SignalExtension(txVector, preamble, frequency, mpdutype) ==
  LET modClass == GetModulationClass(txVector.mode)
  IN CASE modClass = "WIFI_MOD_CLASS_ERP_OFDM" -> 6000
       [] modClass = "WIFI_MOD_CLASS_OFDM" -> 0
       [] OTHER ->
            IF /\ modClass = "WIFI_MOD_CLASS_HT"
               /\ frequency >= 2400
               /\ frequency <= 2500
               /\ \/ (mpdutype = "NORMAL_MPDU" /\ preamble # "WIFI_PREAMBLE_NONE")
                  \/ (mpdutype = "LAST_MPDU_IN_AGGREGATE"
                        /\ preamble = "WIFI_PREAMBLE_NONE")
            THEN 6000
            ELSE 0

\* The role a call has from its (mpdu type, preamble) pair.
\* A variant of Role that takes every last MPDU of an aggregate as the Last
\* role, whatever its preamble.
RoleOfAnyLast(mpdutype, preamble) ==
  CASE mpdutype = "MPDU_IN_AGGREGATE" /\ preamble # "WIFI_PREAMBLE_NONE" -> "First"
    [] mpdutype = "MPDU_IN_AGGREGATE" /\ preamble = "WIFI_PREAMBLE_NONE" -> "Middle"
    [] mpdutype = "LAST_MPDU_IN_AGGREGATE" -> "Last"
    [] mpdutype = "NORMAL_MPDU" /\ preamble # "WIFI_PREAMBLE_NONE" -> "Normal"
    [] OTHER -> "Wrong"

Role(mpdutype, preamble) ==
  CASE mpdutype = "MPDU_IN_AGGREGATE" /\ preamble # "WIFI_PREAMBLE_NONE" -> "First"
    [] mpdutype = "MPDU_IN_AGGREGATE" /\ preamble = "WIFI_PREAMBLE_NONE" -> "Middle"
    [] mpdutype = "LAST_MPDU_IN_AGGREGATE" /\ preamble = "WIFI_PREAMBLE_NONE" -> "Last"
    [] mpdutype = "NORMAL_MPDU" /\ preamble # "WIFI_PREAMBLE_NONE" -> "Normal"
    [] OTHER -> "Wrong"

\* The outcome of one call on the accumulator (totalSize, totalSymbols):
\* how the call ends, the Time returned and the accumulator it leaves.
Outcome(st, duration, totalSize, totalSymbols) ==
  [status |-> st, duration |-> duration,
   m_totalAmpduSize |-> totalSize, m_totalAmpduNumSymbols |-> totalSymbols]

\* The outcome of a call that returns r and leaves the accumulator alone.
OutcomeOf(r, totalSize, totalSymbols) ==
  Outcome(r.status, r.duration, totalSize, totalSymbols)

\* A First or a Middle MPDU of an aggregate: the time of its numSymbols is
\* returned, and a committing call adds size and numSymbols to the
\* accumulator.
InAggregate(numSymbols, ext, totalSize, totalSymbols, size, txVector, incFlag) ==
  Outcome("ok", SymbolsToTime(numSymbols, txVector) + ext,
          IF Commits(incFlag) THEN totalSize + size ELSE totalSize,
          IF Commits(incFlag) THEN DoubleSum(totalSymbols, numSymbols)
          ELSE totalSymbols)

\* The Last MPDU of an aggregate: the whole count of totalSize + size bytes
\* less the accumulated count, which NS_ASSERT requires not to exceed it.
LastInAggregate(final, ext, totalSize, totalSymbols, txVector, incFlag) ==
  IF DoubleAtMost(totalSymbols, final)
  THEN Outcome("ok",
               SymbolsToTime(DoubleDifference(final, totalSymbols), txVector) + ext,
               AfterLast(totalSize, 0, incFlag),
               AfterLast(totalSymbols, DoubleZero, incFlag))
  ELSE Outcome("assert", 0, totalSize, totalSymbols)

SymbolOutcome(role, ext, totalSize, totalSymbols, size, txVector, incFlag) ==
  CASE role = "First" ->
         InAggregate(FirstNumSymbols(size, txVector), ext, totalSize,
                     totalSymbols, size, txVector, incFlag)
    [] role = "Middle" ->
         InAggregate(MiddleNumSymbols(size, txVector), ext, totalSize,
                     totalSymbols, size, txVector, incFlag)
    [] role = "Last" ->
         LastInAggregate(TotalNumSymbols(totalSize + size, txVector), ext,
                         totalSize, totalSymbols, txVector, incFlag)
    [] role = "Normal" ->
         Outcome("ok",
                 SymbolsToTime(DoubleInteger(TotalNumSymbols(size, txVector)),
                               txVector) + ext,
                 totalSize, totalSymbols)
    [] OTHER -> Outcome("fatal", 0, totalSize, totalSymbols)

SymbolPayloadDuration(totalSize, totalSymbols, size, txVector, preamble, frequency, mpdutype, incFlag) ==
  SymbolOutcome(Role(mpdutype, preamble),
                SignalExtension(txVector, preamble, frequency, mpdutype),
                totalSize, totalSymbols, size, txVector, incFlag)

\* A variant of DsssPayloadDuration that drops the fraction of a microsecond.
DsssPayloadDurationRoundedDown(size, txVector) ==
  1000 * ((size * 8 * 1000) \div GetDataRate(txVector.mode, 22, 1))

\* MicroSeconds (lrint (ceil ((size * 8.0) / (GetDataRate (22, 0, 1) / 1.0e6))))
DsssPayloadDuration(size, txVector) ==
  1000 * Ceil(size * 8 * 1000, GetDataRate(txVector.mode, 22, 1))

(***************************************************************************)
(* WifiPhy::GetPayloadDuration, DMG classes (durations in ns)              *)
(*                                                                         *)
(* A uint32_t is held as the integer of smallest magnitude congruent to    *)
(* it modulo 2^32: a difference that wraps around is a negative number     *)
(* here, and stands for that number plus 2^32.  The quotients by 1.76 and  *)
(* the products by 0.57 are taken in doubles by the source; their ceilings *)
(* are those of the quotients by 44/25 and of the products by 57/100.      *)
(***************************************************************************)
\* The floors of the payload time of a packet with a training field (ns):
\* (aBRPminSCblocks * aSCBlockSize + aSCGILength) * 0.57 as a uint32_t, and
\* aBRPminOFDMblocks * 242.
OFDMSCMin == 5289

OFDMBRPMin == 4840

\* ceil of a / b for b > 0 and an a of either sign.
CeilSigned(a, b) == 0 - ((0 - a) \div b)

\* A variant of DmgCtrlNcw that counts the codewords of Nbits = (size - 8) * 8.
DmgCtrlNcwOfNbits(size) == 1 + CeilSigned((size - 8) * 8, 168)

\* Ncw = 1 + (uint32_t) ceil ((double (size) - 6) * 8 / 168): the ceiling
\* is -0.0 for a size below 6.
DmgCtrlNcw(size) == 1 + CeilSigned((size - 6) * 8, 168)

\* What (uint32_t) gives for a double that no uint32_t holds (an infinity,
\* a NaN): the conversion is undefined.  0 is what the truncating and the
\* saturating conversion instructions leave, the other values are bit
\* patterns 0x40000000 and 0xFFFFFFFF.
ConvertedOutOfRange == {0, 1073741824, -1}

\* Ldplcw = (size - 6) * 8 - (Ncw - 2) * Ldpcw
DmgCtrlLdplcw(size, Ncw, Ldpcw) == (size - 6) * 8 - (Ncw - 2) * Ldpcw

\* DencodedSymmbols = (672 - (504 - Ldpcw)) * (Ncw - 2) + (672 - (504 - Ldplcw))
DmgCtrlDencodedSymbols(size, Ncw, Ldpcw) ==
  (672 - (504 - Ldpcw)) * (Ncw - 2)
    + (672 - (504 - DmgCtrlLdplcw(size, Ncw, Ldpcw)))

\* Chips = DencodedSymmbols * 32
DmgCtrlChips(size, Ncw, Ldpcw) == DmgCtrlDencodedSymbols(size, Ncw, Ldpcw) * 32

\* The Chips values the call can compute: Ldpcw = (uint32_t) ceil ((double
\* (size) - 6) * 8 / (Ncw - 1)) is the conversion of an infinity or of a NaN
\* when Ncw - 1 is 0.
DmgCtrlChipsSet(size) ==
  IF DmgCtrlNcw(size) - 1 = 0
  THEN {DmgCtrlChips(size, DmgCtrlNcw(size), w) : w \in ConvertedOutOfRange}
  ELSE {DmgCtrlChips(size, DmgCtrlNcw(size),
                     CeilSigned((size - 6) * 8, DmgCtrlNcw(size) - 1))}

\* NanoSeconds (ceil (double (Chips) / 1.76)); a wrapped Chips is 2^32 less
\* its magnitude, and its time is beyond LongestTime.
ChipsToTime(chips) ==
  IF chips < 0 THEN LongestTime ELSE CeilSigned(chips * 25, 44)

\* The DMG control branch without a training field.  The call is undefined
\* when it divides by Ncw - 1 = 0; the time is then the one of the Chips
\* value, which every conversion result leaves the same.
DmgCtrlPayloadDuration(size) ==
  [status |-> IF DmgCtrlNcw(size) - 1 = 0 \/ Cardinality(DmgCtrlChipsSet(size)) # 1
              THEN "undefined"
              ELSE "ok",
   duration |-> ChipsToTime(CHOOSE chips \in DmgCtrlChipsSet(size) :
                              \A other \in DmgCtrlChipsSet(size) : chips <= other)]

\* NanoSeconds (ceil (double ((88 + (size - 6) * 8 + Ncw * 168) * 0.57 * 32)))
DmgCtrlTrainingPayloadDuration(size) ==
  CeilSigned((88 + (size - 6) * 8 + DmgCtrlNcw(size) * 168) * 57 * 32, 100)

\* Ncbpb of DMG SC (factor 448) and Ncbps of DMG OFDM (factor 336); 0 stands
\* for the fatal error "unsupported constellation size".
DmgCodedBitsPerBlock(mode) ==
  CASE mode.modClass = "WIFI_MOD_CLASS_DMG_SC" ->
         (CASE mode.constellation = 2 -> 448
            [] mode.constellation = 4 -> 2 * 448
            [] mode.constellation = 16 -> 4 * 448
            [] mode.constellation = 64 -> 6 * 448
            [] mode.constellation = 256 -> 8 * 448
            [] OTHER -> 0)
    [] OTHER ->
         (CASE mode.constellation = 2 -> 336
            [] mode.constellation = 4 -> 2 * 336
            [] mode.constellation = 16 -> 4 * 336
            [] mode.constellation = 64 -> 6 * 336
            [] OTHER -> 0)

\* A variant of DmgCodedBits that takes the bits of a code rate it does not
\* know as uncoded.
DmgCodedBitsUncoded(size, mode) ==
  CASE mode.codeRate = <<1, 4>> -> size * 8 * 4
    [] mode.codeRate = <<1, 2>> -> size * 8 * 2
    [] mode.codeRate = <<13, 16>> -> CeilSigned(size * 8 * 16, 13)
    [] mode.codeRate = <<3, 4>> -> CeilSigned(size * 8 * 4, 3)
    [] mode.codeRate = <<5, 8>> -> CeilSigned(size * 8 * 8, 5)
    [] OTHER -> size * 8

\* Ncbits from Nbits = size * 8 by the code rate; -1 stands for the fatal
\* error "unsupported code rate".
DmgCodedBits(size, mode) ==
  CASE mode.codeRate = <<1, 4>> -> size * 8 * 4
    [] mode.codeRate = <<1, 2>> -> size * 8 * 2
    [] mode.codeRate = <<13, 16>> -> CeilSigned(size * 8 * 16, 13)
    [] mode.codeRate = <<3, 4>> -> CeilSigned(size * 8 * 4, 3)
    [] mode.codeRate = <<5, 8>> -> CeilSigned(size * 8 * 8, 5)
    [] OTHER -> -1

\* Ncw = (uint32_t) ceil (double (Ncbits) / 672.0)
DmgCodewords(size, mode) == CeilSigned(DmgCodedBits(size, mode), 672)

\* Nblks (DMG SC) and Nsym (DMG OFDM): ceil (Ncw * 672.0 / Ncbpb)
DmgBlocks(size, mode) ==
  CeilSigned(DmgCodewords(size, mode) * 672, DmgCodedBitsPerBlock(mode))

DmgSupported(mode) ==
  DmgCodedBitsPerBlock(mode) # 0 /\ DmgCodedBits(0, mode) # -1

\* A variant of WithTrainingFloor that applies the floor to every frame.
WithTrainingFloorOnEveryFrame(tData, txVector, floor) ==
  IF tData < floor THEN floor ELSE tData

\* if (txVector.GetTrainngFieldLength () != 0) { if (tData < floor) tData = floor; }
WithTrainingFloor(tData, txVector, floor) ==
  IF txVector.trainingFieldLength # 0 /\ tData < floor THEN floor ELSE tData

\* tData = lrint (ceil ((double (Nblks) * 512 + 64) / 1.76))
\* A variant of DmgScPayloadDuration that takes one symbol block for every
\* LDPC codeword.
DmgScPayloadDurationOfCodewords(size, txVector) ==
  WithTrainingFloor(CeilSigned((DmgCodewords(size, txVector.mode) * 512 + 64) * 25, 44),
                    txVector, OFDMSCMin)

DmgScPayloadDuration(size, txVector) ==
  WithTrainingFloor(CeilSigned((DmgBlocks(size, txVector.mode) * 512 + 64) * 25, 44),
                    txVector, OFDMSCMin)

\* tData = Nsym * 242
DmgOfdmPayloadDuration(size, txVector) ==
  WithTrainingFloor(DmgBlocks(size, txVector.mode) * 242, txVector, OFDMBRPMin)

\* CaluclateTransmittedBits (size, txvector): how the call ends and the bit
\* count returned; every class but DMG SC and DMG OFDM takes the default
\* case, the fatal error "unsupported modulation class".
CaluclateTransmittedBits(size, txVector) ==
  CASE txVector.mode.modClass
         \notin {"WIFI_MOD_CLASS_DMG_SC", "WIFI_MOD_CLASS_DMG_OFDM"} ->
         [status |-> "fatal", duration |-> 0]
    [] ~DmgSupported(txVector.mode) -> [status |-> "fatal", duration |-> 0]
    [] txVector.mode.modClass = "WIFI_MOD_CLASS_DMG_SC" ->
         [status |-> "ok",
          duration |-> 3328 + 1024 + (DmgBlocks(size, txVector.mode) + 1) * 64
                         + DmgBlocks(size, txVector.mode)
                             * DmgCodedBitsPerBlock(txVector.mode)]
    [] OTHER ->
         [status |-> "ok",
          duration |-> 3328 + 672 + DmgBlocks(size, txVector.mode)
                                      * DmgCodedBitsPerBlock(txVector.mode)]

\* The four DMG cases of the switch: how the call ends and the Time returned.
DmgPayloadDuration(size, txVector) ==
  CASE txVector.mode.modClass = "WIFI_MOD_CLASS_DMG_CTRL" ->
         IF txVector.trainingFieldLength = 0
         THEN DmgCtrlPayloadDuration(size)
         ELSE [status |-> "ok", duration |-> DmgCtrlTrainingPayloadDuration(size)]
    [] txVector.mode.modClass = "WIFI_MOD_CLASS_DMG_LP_SC" ->
         [status |-> "ok", duration |-> 0]
    [] ~DmgSupported(txVector.mode) -> [status |-> "fatal", duration |-> 0]
    [] txVector.mode.modClass = "WIFI_MOD_CLASS_DMG_SC" ->
         [status |-> "ok", duration |-> DmgScPayloadDuration(size, txVector)]
    [] OTHER ->
         [status |-> "ok", duration |-> DmgOfdmPayloadDuration(size, txVector)]

\* The switch on the modulation class; its default case is the fatal error
\* "unsupported modulation class".
PayloadDuration(totalSize, totalSymbols, size, txVector, preamble, frequency, mpdutype, incFlag) ==
  LET modClass == GetModulationClass(txVector.mode)
  IN CASE IsSymbolClass(modClass) ->
            SymbolPayloadDuration(totalSize, totalSymbols, size, txVector,
                                  preamble, frequency, mpdutype, incFlag)
       [] modClass \in {"WIFI_MOD_CLASS_DSSS", "WIFI_MOD_CLASS_HR_DSSS"} ->
            Outcome("ok", DsssPayloadDuration(size, txVector),
                    totalSize, totalSymbols)
       [] IsDmgClass(modClass) ->
            OutcomeOf(DmgPayloadDuration(size, txVector), totalSize,
                      totalSymbols)
       [] OTHER -> Outcome("fatal", 0, totalSize, totalSymbols)

(***************************************************************************)
(* PLCP preamble and header durations (ns)                                 *)
(***************************************************************************)
\* A variant of GetPlcpHtTrainingSymbolDuration with one data training field
\* for every spatial stream.
GetPlcpHtTrainingSymbolDurationOfNss(preamble, txVector) ==
  LET Ndltf == txVector.nss
      Neltf == IF txVector.ness < 3 THEN txVector.ness ELSE 4
  IN CASE preamble = "WIFI_PREAMBLE_HT_MF" -> 1000 * (4 + 4 * Ndltf + 4 * Neltf)
       [] preamble = "WIFI_PREAMBLE_HT_GF" -> 1000 * (4 * Ndltf + 4 * Neltf)
       [] preamble = "WIFI_PREAMBLE_VHT" -> 1000 * (4 + 4 * Ndltf)
       [] OTHER -> 0

GetPlcpHtTrainingSymbolDuration(preamble, txVector) ==
  LET Ndltf == CASE txVector.nss < 3 -> txVector.nss
                 [] txVector.nss < 5 -> 4
                 [] txVector.nss < 7 -> 6
                 [] OTHER -> 8
      Neltf == IF txVector.ness < 3 THEN txVector.ness ELSE 4
  IN CASE preamble = "WIFI_PREAMBLE_HT_MF" -> 1000 * (4 + 4 * Ndltf + 4 * Neltf)
       [] preamble = "WIFI_PREAMBLE_HT_GF" -> 1000 * (4 * Ndltf + 4 * Neltf)
       [] preamble = "WIFI_PREAMBLE_VHT" -> 1000 * (4 + 4 * Ndltf)
       [] OTHER -> 0

GetPlcpHtSigHeaderDuration(preamble) ==
  IF preamble \in {"WIFI_PREAMBLE_HT_MF", "WIFI_PREAMBLE_HT_GF"} THEN 8000 ELSE 0

GetPlcpVhtSigA1Duration(preamble) ==
  IF preamble = "WIFI_PREAMBLE_VHT" THEN 4000 ELSE 0

GetPlcpVhtSigA2Duration(preamble) ==
  IF preamble = "WIFI_PREAMBLE_VHT" THEN 4000 ELSE 0

GetPlcpVhtSigBDuration(preamble) ==
  IF preamble = "WIFI_PREAMBLE_VHT" THEN 4000 ELSE 0

\* The classes with a case in the switch of GetPlcpHeaderDuration and of
\* GetPlcpPreambleDuration; any other class takes the default case.
PlcpClasses ==
  {"WIFI_MOD_CLASS_OFDM", "WIFI_MOD_CLASS_HT", "WIFI_MOD_CLASS_VHT",
   "WIFI_MOD_CLASS_ERP_OFDM", "WIFI_MOD_CLASS_DSSS", "WIFI_MOD_CLASS_HR_DSSS",
   "WIFI_MOD_CLASS_DMG_CTRL", "WIFI_MOD_CLASS_DMG_SC", "WIFI_MOD_CLASS_DMG_LP_SC",
   "WIFI_MOD_CLASS_DMG_OFDM"}

\* How GetPlcpHeaderDuration and GetPlcpPreambleDuration end: the test for
\* no preamble returns before the switch, whose default case is the fatal
\* error "unsupported modulation class".
PlcpStatus(txVector, preamble) ==
  IF preamble = "WIFI_PREAMBLE_NONE"
       \/ GetModulationClass(txVector.mode) \in PlcpClasses
  THEN "ok"
  ELSE "fatal"

GetPlcpHeaderDuration(txVector, preamble) ==
  LET modClass == GetModulationClass(txVector.mode)
  IN IF preamble = "WIFI_PREAMBLE_NONE" THEN 0
     ELSE CASE modClass = "WIFI_MOD_CLASS_OFDM" ->
                 (CASE txVector.channelWidth = 10 -> 8000
                    [] txVector.channelWidth = 5 -> 16000
                    [] OTHER -> 4000)
            [] modClass = "WIFI_MOD_CLASS_HT" ->
                 (IF preamble = "WIFI_PREAMBLE_HT_GF" THEN 0 ELSE 4000)
            [] modClass \in {"WIFI_MOD_CLASS_VHT", "WIFI_MOD_CLASS_ERP_OFDM"} -> 4000
            [] modClass \in {"WIFI_MOD_CLASS_DSSS", "WIFI_MOD_CLASS_HR_DSSS"} ->
                 (IF preamble = "WIFI_PREAMBLE_SHORT"
                       /\ GetDataRate(txVector.mode, 22, 1) > 1000
                  THEN 24000 ELSE 48000)
            [] modClass = "WIFI_MOD_CLASS_DMG_CTRL" -> 4654
            [] modClass \in {"WIFI_MOD_CLASS_DMG_SC", "WIFI_MOD_CLASS_DMG_LP_SC"} -> 582
            [] modClass = "WIFI_MOD_CLASS_DMG_OFDM" -> 242
            [] OTHER -> 0

\* A variant of GetPlcpPreambleDuration without the test for no preamble.
GetPlcpPreambleDurationOfClass(txVector, preamble) ==
  LET modClass == GetModulationClass(txVector.mode)
  IN CASE modClass = "WIFI_MOD_CLASS_OFDM" ->
            (CASE txVector.channelWidth = 10000000 -> 32000
               [] txVector.channelWidth = 5000000 -> 64000
               [] OTHER -> 16000)
       [] modClass \in {"WIFI_MOD_CLASS_VHT", "WIFI_MOD_CLASS_HT"} -> 16000
       [] modClass = "WIFI_MOD_CLASS_ERP_OFDM" -> 16000
       [] modClass \in {"WIFI_MOD_CLASS_DSSS", "WIFI_MOD_CLASS_HR_DSSS"} ->
            (IF preamble = "WIFI_PREAMBLE_SHORT"
                  /\ GetDataRate(txVector.mode, 22, 1) > 1000
             THEN 72000 ELSE 144000)
       [] modClass = "WIFI_MOD_CLASS_DMG_CTRL" -> 4291
       [] modClass \in {"WIFI_MOD_CLASS_DMG_SC", "WIFI_MOD_CLASS_DMG_LP_SC"} -> 1891
       [] modClass = "WIFI_MOD_CLASS_DMG_OFDM" -> 1891
       [] OTHER -> 0

\* The OFDM branch switches on the channel width against 20000000, 10000000
\* and 5000000, while the width is in MHz.
GetPlcpPreambleDuration(txVector, preamble) ==
  LET modClass == GetModulationClass(txVector.mode)
  IN IF preamble = "WIFI_PREAMBLE_NONE" THEN 0
     ELSE CASE modClass = "WIFI_MOD_CLASS_OFDM" ->
                 (CASE txVector.channelWidth = 10000000 -> 32000
                    [] txVector.channelWidth = 5000000 -> 64000
                    [] OTHER -> 16000)
            [] modClass \in {"WIFI_MOD_CLASS_VHT", "WIFI_MOD_CLASS_HT"} -> 16000
            [] modClass = "WIFI_MOD_CLASS_ERP_OFDM" -> 16000
            [] modClass \in {"WIFI_MOD_CLASS_DSSS", "WIFI_MOD_CLASS_HR_DSSS"} ->
                 (IF preamble = "WIFI_PREAMBLE_SHORT"
                       /\ GetDataRate(txVector.mode, 22, 1) > 1000
                  THEN 72000 ELSE 144000)
            [] modClass = "WIFI_MOD_CLASS_DMG_CTRL" -> 4291
            [] modClass \in {"WIFI_MOD_CLASS_DMG_SC", "WIFI_MOD_CLASS_DMG_LP_SC"} -> 1891
            [] modClass = "WIFI_MOD_CLASS_DMG_OFDM" -> 1891
            [] OTHER -> 0

CalculatePlcpPreambleAndHeaderDuration(txVector, preamble) ==
  GetPlcpPreambleDuration(txVector, preamble)
    + GetPlcpHeaderDuration(txVector, preamble)
    + GetPlcpHtSigHeaderDuration(preamble)
    + GetPlcpVhtSigA1Duration(preamble)
    + GetPlcpVhtSigA2Duration(preamble)
    + GetPlcpHtTrainingSymbolDuration(preamble, txVector)
    + GetPlcpVhtSigBDuration(preamble)

(***************************************************************************)
(* Bookkeeping of the burst in progress (history, not program state)       *)
(*   phase   "idle"   no committed frame since the accumulator was zero    *)
(*           "open"   a First was committed on a zero accumulator, then    *)
(*                    only Middles                                         *)
(*           "done"   the Last of an open burst was just committed         *)
(*           "broken" order violated (no First, or a second First)         *)
(*           "missed" a Last was just committed on a broken burst and      *)
(*                    returned a duration                                  *)
(*   uniform          every committed frame since the accumulator was zero *)
(*                    had the vector and frequency of the first one        *)
(*   txVector, frequency   those of the committed frames while uniform     *)
(*   sizes, durs      the committed frames of a uniform open or done burst *)
(*                    and the payload durations returned for them          *)
(*   plcp             the PLCP time returned on top of durs                *)
(*   firsts, n        committed Firsts and committed frames since the      *)
(*                    accumulator was zero                                 *)
(***************************************************************************)
NoTxVector ==
  [mode |-> [uniqueName |-> "none", modClass |-> "WIFI_MOD_CLASS_UNKNOWN",
            codeRate |-> <<1, 1>>, constellation |-> 0, mcs |-> 0],
   channelWidth |-> 0, nss |-> 0, ness |-> 0,
   shortGuardInterval |-> FALSE, stbc |-> FALSE]

Burst(phase, uniform, txVector, frequency, sizes, durs, plcp, firsts, n) ==
  [phase |-> phase, uniform |-> uniform, txVector |-> txVector,
   frequency |-> frequency, sizes |-> sizes, durs |-> durs, plcp |-> plcp,
   firsts |-> firsts, n |-> n]

IdleBurst == Burst("idle", TRUE, NoTxVector, 0, <<>>, <<>>, 0, 0, 0)

Settled(b) == IF b.phase \in {"done", "missed"} THEN IdleBurst ELSE b

\* Whether the call changes the accumulator when it returns.
Accumulates(txVector, preamble, mpdutype, incFlag) ==
  /\ incFlag = 1
  /\ IsSymbolClass(GetModulationClass(txVector.mode))
  /\ Role(mpdutype, preamble) \in {"First", "Middle", "Last"}

BurstAfter(b0, r, size, txVector, preamble, frequency, mpdutype, incFlag, plcp) ==
  LET b == Settled(b0)
      role == Role(mpdutype, preamble)
      fresh == b.phase = "idle"
      uniform == fresh \/ (b.uniform /\ b.txVector = txVector
                             /\ b.frequency = frequency)
      phase == CASE role = "First" -> IF fresh THEN "open" ELSE "broken"
                 [] role = "Middle" -> IF b.phase = "open" THEN "open" ELSE "broken"
                 [] role = "Last" -> IF b.phase = "open" THEN "done" ELSE "missed"
      kept == uniform /\ phase \in {"open", "done"}
  IN CASE r.status = "assert" ->
            IF b.uniform /\ b.txVector = txVector
            THEN b
            ELSE [b EXCEPT !.uniform = FALSE, !.txVector = NoTxVector,
                           !.frequency = 0]
       [] r.status = "fatal" -> b
       [] ~Accumulates(txVector, preamble, mpdutype, incFlag) -> b
       [] OTHER ->
            Burst(phase, uniform,
                  IF uniform THEN txVector ELSE NoTxVector,
                  IF uniform THEN frequency ELSE 0,
                  IF kept THEN Append(b.sizes, size) ELSE <<>>,
                  IF kept THEN Append(b.durs, r.duration) ELSE <<>>,
                  IF kept THEN b.plcp + plcp ELSE 0,
                  b.firsts + (IF role = "First" THEN 1 ELSE 0),
                  b.n + 1)

(***************************************************************************)
(* MgtFrame: the information element container                             *)
(*   heap    the element objects a Ptr can point to, each with the type id *)
(*           its class reports and its information field (body)            *)
(*   m_map   std::map<WifiInformationElementId, Ptr<..>>: the entries in   *)
(*           iteration order, each a key and a pointer (index into heap,   *)
(*           0 for a null Ptr)                                             *)
(*   wire    the bytes last written by SerializeInformationElements        *)
(***************************************************************************)
\* The case labels of the switch in DeserializeInformationElements:
\* supported rates 1, extended supported rates 50, HT capabilities 45,
\* VHT capabilities 191, HT operations 61, ERP information 42,
\* DMG capabilities 148, multi-band 158, DMG operation 151, next DMG ATI 147,
\* relay capabilities 167, extended schedule 144.
RecognisedIds == {1, 50, 45, 191, 61, 42, 148, 158, 151, 147, 167, 144}

\* The element types of the model: SSID (0, not among the case labels) and
\* supported rates (1).
ElementIds == {0, 1}

ByteValues == {7}

RECURSIVE SeqsUpTo(_, _)
SeqsUpTo(S, n) ==
  IF n = 0
  THEN {<<>>}
  ELSE LET shorter == SeqsUpTo(S, n - 1)
       IN shorter \cup {Append(q, x) : q \in shorter, x \in S}

Bodies == SeqsUpTo(ByteValues, MaxBody)

NullPtr == 0

NullElement == [id |-> -1, body |-> <<>>]

\* What a Ptr gives access to.
Deref(h, ptr) == IF ptr = NullPtr THEN NullElement ELSE h[ptr]

\* The position of key in the map, 0 when there is no such entry.
MapFind(map, key) ==
  IF \E k \in 1 .. Len(map) : map[k].key = key
  THEN CHOOSE k \in 1 .. Len(map) : map[k].key = key
  ELSE 0

\* A variant of MapStore that keeps the entries in the order of insertion.
MapStoreAppend(map, key, ptr) ==
  IF MapFind(map, key) # 0
  THEN [map EXCEPT ![MapFind(map, key)].ptr = ptr]
  ELSE Append(map, [key |-> key, ptr |-> ptr])

\* m_map[key] = ptr: the entry of an existing key is overwritten, a new key
\* is inserted at its place in ascending key order.
MapStore(map, key, ptr) ==
  IF MapFind(map, key) # 0
  THEN [map EXCEPT ![MapFind(map, key)].ptr = ptr]
  ELSE LET below == SelectSeq(map, LAMBDA e : e.key < key)
           above == SelectSeq(map, LAMBDA e : e.key > key)
       IN below \o <<[key |-> key, ptr |-> ptr]>> \o above

\* The pointers of the map's entries, in iteration order, each once.
RECURSIVE LivePtrs(_, _, _)
LivePtrs(map, k, acc) ==
  IF k > Len(map)
  THEN acc
  ELSE LivePtrs(map, k + 1,
                IF map[k].ptr = NullPtr \/ \E j \in 1 .. Len(acc) : acc[j] = map[k].ptr
                THEN acc
                ELSE Append(acc, map[k].ptr))

\* Ptr reference counting: an object no entry points to is released.  The
\* remaining objects are numbered in the order the map reaches them.
Release(map, h) ==
  LET live == LivePtrs(map, 1, <<>>)
      renamed(ptr) == IF ptr = NullPtr
                      THEN NullPtr
                      ELSE CHOOSE j \in 1 .. Len(live) : live[j] = ptr
  IN [m_map |-> [k \in 1 .. Len(map) |->
                   [key |-> map[k].key, ptr |-> renamed(map[k].ptr)]],
      heap |-> [j \in 1 .. Len(live) |-> h[live[j]]]]

\* WifiInformationElement::GetSerializedSize: 2 + GetInformationFieldSize ()
GetSerializedSize(element) == 2 + Len(element.body)

\* WifiInformationElement::Serialize: element id, length, information field
Serialize(element) == <<element.id, Len(element.body)>> \o element.body

\* The sum of the entries' sizes from entry k on: -1 when the loop reaches a
\* null Ptr.
RECURSIVE SerializedSizeFrom(_, _, _, _)
SerializedSizeFrom(map, h, k, size) ==
  IF k > Len(map)
  THEN size
  ELSE IF map[k].ptr = NullPtr
       THEN -1
       ELSE SerializedSizeFrom(map, h, k + 1,
                               size + GetSerializedSize(h[map[k].ptr]))

\* The bytes written from entry k on; the loop stops at a null Ptr.
RECURSIVE SerializeFrom(_, _, _)
SerializeFrom(map, h, k) ==
  IF k > Len(map) \/ map[k].ptr = NullPtr
  THEN <<>>
  ELSE Serialize(h[map[k].ptr]) \o SerializeFrom(map, h, k + 1)

HasNullEntry(map) == \E k \in 1 .. Len(map) : map[k].ptr = NullPtr

\* The while loop of DeserializeInformationElements from offset i (1-based)
\* of the well-formed input bytes; element is the local Ptr, which keeps its
\* value from the previous iteration when no case label matches id.
RECURSIVE DeserializeLoop(_, _, _, _, _)
DeserializeLoop(bytes, i, map, h, element) ==
  IF i > Len(bytes)
  THEN [crashed |-> FALSE, m_map |-> map, heap |-> h, cursor |-> i]
  ELSE LET id == bytes[i]
           length == bytes[i + 1]
           created == id \in RecognisedIds
           h1 == IF created THEN Append(h, [id |-> id, body |-> <<>>]) ELSE h
           ptr == IF created THEN Len(h1) ELSE element
       IN IF ptr = NullPtr
          THEN [crashed |-> TRUE, m_map |-> map, heap |-> h, cursor |-> i + 2]
          ELSE DeserializeLoop(bytes, i + 2 + length,
                               MapStore(map, id, ptr),
                               [h1 EXCEPT ![ptr].body =
                                  SubSeq(bytes, i + 2, i + 1 + length)],
                               ptr)

\* The records a well-formed input is made of, and the inputs of up to n
\* bytes.
Records == {Serialize([id |-> id, body |-> body]) : id \in ElementIds, body \in Bodies}

RECURSIVE Frames(_)
Frames(n) ==
  {<<>>} \cup
  UNION {{r \o f : f \in Frames(n - Len(r))} : r \in {q \in Records : Len(q) <= n}}

Inputs == Frames(MaxInput)

\* The outcomes of a call through a null Ptr: the assertion of a checked
\* Ptr, or the invalid memory access of an unchecked one.
NullDereference == {"assert", "segfault"}

(***************************************************************************)
(* Bookkeeping of the container's history (not program state)              *)
(*   op, id        the last operation when it was a lookup ("get"), a size  *)
(*                 query ("size") or a serialization ("serialize"), "other" *)
(*                 otherwise; the id argument of the lookup                *)
(*   retElem       what the last GetInformationElement returned            *)
(*   retSize       what the last GetInformationElementsSerializedSize      *)
(*                 returned                                                *)
(*   adds          only AddWifiInformationElement has written to the       *)
(*                 container since it was constructed                      *)
(*   descending    an element was added under a new key below a key the    *)
(*                 container already had                                   *)
(*   absentLookup  an id with no entry was looked up since construction    *)
(*   latest        for each id written since construction by an Add or by  *)
(*                 an input record, the body written last                  *)
(*   sent, sentAdds   the (id, body) pairs of the container when wire was  *)
(*                 written, and its adds flag then                         *)
(*   trip          the last operation deserialized wire into an empty      *)
(*                 container                                               *)
(***************************************************************************)
IdleLog ==
  [op |-> "other", id |-> 0, retElem |-> NullElement, retSize |-> 0,
   adds |-> TRUE, descending |-> FALSE, absentLookup |-> FALSE, latest |-> {},
   sent |-> {}, sentAdds |-> FALSE, trip |-> FALSE]

\* The (id, body) pairs of the elements the container holds.
Contents(map, h) ==
  {<<h[map[k].ptr].id, h[map[k].ptr].body>> :
     k \in {j \in 1 .. Len(map) : map[j].ptr # NullPtr}}

Written(latest, id, body) ==
  {w \in latest : w[1] # id} \cup {<<id, body>>}

\* latest after the records of the input from offset i on.
RECURSIVE WrittenByInput(_, _, _)
WrittenByInput(latest, bytes, i) ==
  IF i > Len(bytes)
  THEN latest
  ELSE WrittenByInput(Written(latest, bytes[i],
                              SubSeq(bytes, i + 2, i + 1 + bytes[i + 1])),
                      bytes, i + 2 + bytes[i + 1])

\* AddWifiInformationElement (element), element a new object (id, body)
AddWifiInformationElement ==
  \E id \in ElementIds, body \in Bodies :
    LET h1 == Append(heap, [id |-> id, body |-> body])
        st == Release(MapStore(m_map, id, Len(h1)), h1)
    IN /\ ieStatus = "ok"
       /\ m_map' = st.m_map
       /\ heap' = st.heap
       /\ ieLog' = [ieLog EXCEPT !.op = "other", !.id = 0,
                                 !.retElem = NullElement, !.retSize = 0,
                                 !.descending =
                                    \/ ieLog.descending
                                    \/ /\ MapFind(m_map, id) = 0
                                       /\ \E k \in 1 .. Len(m_map) : m_map[k].key > id,
                                 !.latest = Written(ieLog.latest, id, body),
                                 !.trip = FALSE]
       /\ UNCHANGED <<wire, ieStatus, phyVars, calcVars, modeVars>>

\* GetInformationElement (id): m_map[id] makes an entry with a null Ptr when
\* the map has none for id.
GetInformationElement ==
  \E id \in ElementIds :
    LET absent == MapFind(m_map, id) = 0
        map1 == IF absent THEN MapStore(m_map, id, NullPtr) ELSE m_map
    IN /\ ieStatus = "ok"
       /\ m_map' = map1
       /\ ieLog' = [ieLog EXCEPT !.op = "get", !.id = id,
                                 !.retElem = Deref(heap, map1[MapFind(map1, id)].ptr),
                                 !.retSize = 0,
                                 !.adds = ieLog.adds /\ ~absent,
                                 !.absentLookup = ieLog.absentLookup \/ absent,
                                 !.trip = FALSE]
       /\ UNCHANGED <<heap, wire, ieStatus, phyVars, calcVars, modeVars>>

\* GetInformationElementsSerializedSize ()
GetInformationElementsSerializedSize ==
  LET size == SerializedSizeFrom(m_map, heap, 1, 0)
  IN /\ ieStatus = "ok"
     /\ IF size = -1
        THEN \E outcome \in NullDereference : ieStatus' = outcome
        ELSE ieStatus' = "ok"
     /\ ieLog' = [ieLog EXCEPT !.op = "size", !.id = 0,
                               !.retElem = NullElement,
                               !.retSize = IF size = -1 THEN 0 ELSE size,
                               !.trip = FALSE]
     /\ UNCHANGED <<m_map, heap, wire, phyVars, calcVars, modeVars>>

\* SerializeInformationElements (start)
SerializeInformationElements ==
  /\ ieStatus = "ok"
  /\ IF HasNullEntry(m_map)
     THEN /\ \E outcome \in NullDereference : ieStatus' = outcome
          /\ UNCHANGED wire
          /\ ieLog' = [ieLog EXCEPT !.op = "serialize", !.id = 0,
                                    !.retElem = NullElement, !.retSize = 0,
                                    !.trip = FALSE]
     ELSE /\ ieStatus' = "ok"
          /\ wire' = SerializeFrom(m_map, heap, 1)
          /\ ieLog' = [ieLog EXCEPT !.op = "serialize", !.id = 0,
                                    !.retElem = NullElement, !.retSize = 0,
                                    !.sent = Contents(m_map, heap),
                                    !.sentAdds = ieLog.adds,
                                    !.trip = FALSE]
  /\ UNCHANGED <<m_map, heap, phyVars, calcVars, modeVars>>

\* DeserializeInformationElements (start) on the input bytes.
DeserializeInput(bytes) ==
  /\ ieStatus = "ok"
  /\ m_map' = Release(DeserializeLoop(bytes, 1, m_map, heap, NullPtr).m_map,
                      DeserializeLoop(bytes, 1, m_map, heap, NullPtr).heap).m_map
  /\ heap' = Release(DeserializeLoop(bytes, 1, m_map, heap, NullPtr).m_map,
                     DeserializeLoop(bytes, 1, m_map, heap, NullPtr).heap).heap
  /\ IF DeserializeLoop(bytes, 1, m_map, heap, NullPtr).crashed
     THEN \E outcome \in NullDereference : ieStatus' = outcome
     ELSE ieStatus' = "ok"
  /\ ieLog' = [ieLog EXCEPT !.op = "other", !.id = 0,
                            !.retElem = NullElement, !.retSize = 0,
                            !.adds = FALSE,
                            !.latest = WrittenByInput(ieLog.latest, bytes, 1),
                            !.trip = /\ bytes = wire
                                     /\ m_map = <<>>
                                     /\ ieLog.sentAdds]
  /\ UNCHANGED <<wire, phyVars, calcVars, modeVars>>

\* DeserializeInformationElements (start) on the bytes last serialized or on
\* another well-formed input.
DeserializeInformationElements ==
  \E bytes \in Inputs \cup {wire} : DeserializeInput(bytes)

\* A newly constructed MgtFrame takes the place of the container.
NewMgtFrame ==
  /\ ieStatus = "ok"
  /\ m_map' = <<>>
  /\ heap' = <<>>
  /\ ieLog' = [IdleLog EXCEPT !.sent = ieLog.sent,
                              !.sentAdds = ieLog.sentAdds]
  /\ UNCHANGED <<wire, ieStatus, phyVars, calcVars, modeVars>>

(***************************************************************************)
(* The WifiPhy instance                                                    *)
(*   calc    the last call made by a caller that goes through the mode     *)
(*           catalog (not program state): the function, its arguments, the *)
(*           accumulator it found, how it ended and what it returned       *)
(***************************************************************************)
IdleCalc ==
  [fn |-> "none", size |-> 0, txVector |-> NoTxVector,
   preamble |-> "WIFI_PREAMBLE_NONE", frequency |-> 0,
   mpdutype |-> "NORMAL_MPDU", incFlag |-> 0, totalSize |-> 0,
   totalSymbols |-> DoubleZero, status |-> "ok", duration |-> 0]

\* WifiPhy::WifiPhy
(***************************************************************************)
(* The mode accessors and the static constructor                           *)
(*   m_itemList   the names of the modes of WifiModeFactory, in the order  *)
(*                of their uids 1, 2, ..                                   *)
(*   modeStatic   the function-local static of every accessor: the uid of  *)
(*                its mode, 0 while the static is not initialised          *)
(*   creations    how often CreateWifiMode or CreateWifiMcs was called     *)
(*                with each name (history)                                 *)
(***************************************************************************)
\* The accessors the static constructor calls, in its order; an accessor
\* WifiPhy::Get<name> is written as the name of the mode it creates.
StaticConstructor ==
  <<"DsssRate1Mbps", "DsssRate2Mbps", "DsssRate5_5Mbps", "DsssRate11Mbps",
    "ErpOfdmRate6Mbps", "ErpOfdmRate9Mbps", "ErpOfdmRate12Mbps",
    "ErpOfdmRate18Mbps", "ErpOfdmRate24Mbps", "ErpOfdmRate36Mbps",
    "ErpOfdmRate48Mbps", "ErpOfdmRate54Mbps", "OfdmRate6Mbps",
    "OfdmRate9Mbps", "OfdmRate12Mbps", "OfdmRate18Mbps", "OfdmRate24Mbps",
    "OfdmRate36Mbps", "OfdmRate48Mbps", "OfdmRate54Mbps",
    "OfdmRate3MbpsBW10MHz", "OfdmRate4_5MbpsBW10MHz",
    "OfdmRate6MbpsBW10MHz", "OfdmRate9MbpsBW10MHz", "OfdmRate12MbpsBW10MHz",
    "OfdmRate18MbpsBW10MHz", "OfdmRate24MbpsBW10MHz",
    "OfdmRate27MbpsBW10MHz", "OfdmRate1_5MbpsBW5MHz",
    "OfdmRate2_25MbpsBW5MHz", "OfdmRate3MbpsBW5MHz",
    "OfdmRate4_5MbpsBW5MHz", "OfdmRate6MbpsBW5MHz", "OfdmRate9MbpsBW5MHz",
    "OfdmRate12MbpsBW5MHz", "OfdmRate13_5MbpsBW5MHz", "HtMcs0", "HtMcs1",
    "HtMcs2", "HtMcs3", "HtMcs4", "HtMcs5", "HtMcs6", "HtMcs7", "HtMcs8",
    "HtMcs9", "HtMcs10", "HtMcs11", "HtMcs12", "HtMcs13", "HtMcs14",
    "HtMcs15", "HtMcs16", "HtMcs17", "HtMcs18", "HtMcs19", "HtMcs20",
    "HtMcs21", "HtMcs22", "HtMcs23", "HtMcs24", "HtMcs25", "HtMcs26",
    "HtMcs27", "HtMcs28", "HtMcs29", "HtMcs30", "HtMcs31", "VhtMcs0",
    "VhtMcs1", "VhtMcs2", "VhtMcs3", "VhtMcs4", "VhtMcs5", "VhtMcs6",
    "VhtMcs7", "VhtMcs8", "VhtMcs9", "DMG_MCS0", "DMG_MCS1", "DMG_MCS2",
    "DMG_MCS3", "DMG_MCS4", "DMG_MCS5", "DMG_MCS6", "DMG_MCS7", "DMG_MCS8",
    "DMG_MCS9", "DMG_MCS10", "DMG_MCS11", "DMG_MCS12", "DMG_MCS13",
    "DMG_MCS14", "DMG_MCS15", "DMG_MCS16", "DMG_MCS17", "DMG_MCS18",
    "DMG_MCS19", "DMG_MCS20", "DMG_MCS21", "DMG_MCS22", "DMG_MCS23",
    "DMG_MCS24">>

\* Every accessor of the file: those the constructor calls and the
\* accessors of the low power SC modes.
ModeAccessors ==
  {StaticConstructor[i] : i \in DOMAIN StaticConstructor} \cup
  {"DMG_MCS25", "DMG_MCS26", "DMG_MCS27", "DMG_MCS28", "DMG_MCS29",
   "DMG_MCS30", "DMG_MCS31"}

\* WifiModeFactory::AllocateUid: the uid of the item with the name, or the
\* uid of a new item at the end of the list.
AllocateUid(list, uniqueName) ==
  IF \E j \in DOMAIN list : list[j] = uniqueName
  THEN CHOOSE j \in DOMAIN list : list[j] = uniqueName
  ELSE Len(list) + 1

\* static WifiMode mode = WifiModeFactory::CreateWifiMode (name, ..); return mode;
\* the initialiser runs only while the static is not initialised.
AccessorCall(st, name) ==
  IF st.modeStatic[name] # 0
  THEN st
  ELSE [m_itemList |-> IF AllocateUid(st.m_itemList, name) > Len(st.m_itemList)
                       THEN Append(st.m_itemList, name)
                       ELSE st.m_itemList,
        modeStatic |-> [st.modeStatic EXCEPT ![name] = AllocateUid(st.m_itemList, name)],
        creations |-> [st.creations EXCEPT ![name] = @ + 1]]

\* Constructor (): call i of the static constructor is the first call of
\* its accessor, the only one that runs the initialiser of the static.
FirstCall(i) == \A j \in 1 .. i - 1 : StaticConstructor[j] # StaticConstructor[i]

\* The uid that call i of the constructor gets on the empty factory.
ConstructorUid(i) == Cardinality({j \in 1 .. i : FirstCall(j)})

\* The modes when main starts: g_constructor has run on the empty factory,
\* every first call of an accessor has added its mode at the end of the list.
AtProcessStart ==
  [m_itemList |->
     [k \in 1 .. ConstructorUid(Len(StaticConstructor)) |->
        StaticConstructor[CHOOSE i \in DOMAIN StaticConstructor :
                            FirstCall(i) /\ ConstructorUid(i) = k]],
   modeStatic |->
     [a \in ModeAccessors |->
        IF \E i \in DOMAIN StaticConstructor : StaticConstructor[i] = a
        THEN ConstructorUid(CHOOSE i \in DOMAIN StaticConstructor :
                              FirstCall(i) /\ StaticConstructor[i] = a)
        ELSE 0],
   creations |->
     [a \in ModeAccessors |->
        IF \E i \in DOMAIN StaticConstructor : StaticConstructor[i] = a
        THEN 1 ELSE 0]]

Init ==
  /\ m_totalAmpduSize = 0
  /\ m_totalAmpduNumSymbols = DoubleZero
  /\ status = "ok"
  /\ probe = FALSE
  /\ burst = IdleBurst
  /\ m_map = <<>>
  /\ heap = <<>>
  /\ wire = <<>>
  /\ ieStatus = "ok"
  /\ ieLog = IdleLog
  /\ calc = IdleCalc
  /\ m_itemList = AtProcessStart.m_itemList
  /\ modeStatic = AtProcessStart.modeStatic
  /\ creations = AtProcessStart.creations

\* One duration query: plcp is the time added to the payload duration, and
\* maxFrames bounds the frames committed since the accumulator was zero.
Call(size, txVector, preamble, frequency, mpdutype, incFlag, plcp, maxFrames) ==
  LET r == PayloadDuration(m_totalAmpduSize, m_totalAmpduNumSymbols, size,
                           txVector, preamble, frequency, mpdutype, incFlag)
  IN /\ status = "ok"
     /\ (Accumulates(txVector, preamble, mpdutype, incFlag)
           /\ Role(mpdutype, preamble) # "Last")
          => Settled(burst).n < maxFrames - 1
     /\ m_totalAmpduSize' = r.m_totalAmpduSize
     /\ m_totalAmpduNumSymbols' = r.m_totalAmpduNumSymbols
     /\ status' = r.status
     /\ probe' = (incFlag # 1)
     /\ burst' = BurstAfter(burst, r, size, txVector, preamble, frequency,
                            mpdutype, incFlag, plcp)
     /\ UNCHANGED <<ieVars, calcVars, modeVars>>

Query(size, txVector, preamble, frequency, mpdutype, incFlag, plcp) ==
  Call(size, txVector, preamble, frequency, mpdutype, incFlag, plcp, MaxFrames)

\* GetPayloadDuration (size, txVector, preamble, frequency, mpdutype, incFlag)
GetPayloadDuration ==
  \E size \in Sizes, txVector \in TxVectors,
     mpdutype \in MpduTypes, incFlag \in IncFlags :
    \E preamble \in PreamblesOf(txVector), frequency \in FrequenciesOf(txVector) :
      Query(size, txVector, preamble, frequency, mpdutype, incFlag, 0)

\* GetPayloadDuration (size, txVector, preamble, frequency)
GetPayloadDuration4 ==
  \E size \in Sizes, txVector \in TxVectors :
    \E preamble \in PreamblesOf(txVector), frequency \in FrequenciesOf(txVector) :
      Query(size, txVector, preamble, frequency, "NORMAL_MPDU", 0, 0)

\* CalculateTxDuration (size, txVector, preamble, frequency, mpdutype, incFlag)
CalculateTxDuration ==
  \E size \in Sizes, txVector \in TxVectors,
     mpdutype \in MpduTypes, incFlag \in IncFlags :
    \E preamble \in PreamblesOf(txVector), frequency \in FrequenciesOf(txVector) :
      Query(size, txVector, preamble, frequency, mpdutype, incFlag,
            CalculatePlcpPreambleAndHeaderDuration(txVector, preamble))

\* CalculateTxDuration (size, txVector, preamble, frequency)
CalculateTxDuration4 ==
  \E size \in Sizes, txVector \in TxVectors :
    \E preamble \in PreamblesOf(txVector), frequency \in FrequenciesOf(txVector) :
      Query(size, txVector, preamble, frequency, "NORMAL_MPDU", 0,
            CalculatePlcpPreambleAndHeaderDuration(txVector, preamble))

(***************************************************************************)
(* The durations a fresh instance returns for a burst                      *)
(***************************************************************************)
\* The payload durations of the committed calls First, Middle.., (Last when
\* closed) with the given sizes, frame i onwards, made on the accumulator
\* (totalSize, totalSymbols).
RECURSIVE Replay(_, _, _, _, _, _, _)
Replay(sizes, i, closed, totalSize, totalSymbols, txVector, frequency) ==
  IF i > Len(sizes)
  THEN <<>>
  ELSE LET mpdutype == IF closed /\ i = Len(sizes) /\ i > 1
                       THEN "LAST_MPDU_IN_AGGREGATE"
                       ELSE "MPDU_IN_AGGREGATE"
           preamble == IF i = 1 THEN "WIFI_PREAMBLE_LONG" ELSE "WIFI_PREAMBLE_NONE"
           r == PayloadDuration(totalSize, totalSymbols, sizes[i], txVector,
                                preamble, frequency, mpdutype, 1)
       IN <<r.duration>> \o Replay(sizes, i + 1, closed, r.m_totalAmpduSize,
                                   r.m_totalAmpduNumSymbols, txVector, frequency)

FreshBurstDurations(b) ==
  Replay(b.sizes, 1, b.phase = "done", 0, DoubleZero, b.txVector, b.frequency)

\* The payload duration of one Normal frame of the given size.
NormalDuration(size, txVector, frequency) ==
  PayloadDuration(0, DoubleZero, size, txVector, "WIFI_PREAMBLE_LONG", frequency,
                  "NORMAL_MPDU", 0).duration

Next ==
  \/ GetPayloadDuration
  \/ GetPayloadDuration4
  \/ CalculateTxDuration
  \/ CalculateTxDuration4

Spec == Init /\ [][Next]_vars

(***************************************************************************)
(* The sender of aggregates: committed GetPayloadDuration calls in the     *)
(* three aggregate roles, in any order, with longer frames and bursts than *)
(* Spec has and one transmit vector for each of the two symbol formulas    *)
(* (OFDM; HT and VHT), both at 5 GHz.  The Last call is made with the      *)
(* commit flag on or off.                                                  *)
(***************************************************************************)
AmpduVectors == {v \in TxVectors : v.mode.uniqueName \in {"OfdmRate6Mbps", "VhtMcs0"}}

AmpduPreamble(txVector) ==
  IF GetModulationClass(txVector.mode) = "WIFI_MOD_CLASS_VHT"
  THEN "WIFI_PREAMBLE_VHT"
  ELSE "WIFI_PREAMBLE_LONG"

AmpduFirst ==
  \E size \in AmpduSizes, txVector \in AmpduVectors :
    Call(size, txVector, AmpduPreamble(txVector), 5180, "MPDU_IN_AGGREGATE",
         1, 0, MaxAmpduFrames)

AmpduMiddle ==
  \E size \in AmpduSizes, txVector \in AmpduVectors :
    Call(size, txVector, "WIFI_PREAMBLE_NONE", 5180, "MPDU_IN_AGGREGATE",
         1, 0, MaxAmpduFrames)

AmpduLast ==
  \E size \in AmpduSizes, txVector \in AmpduVectors, incFlag \in IncFlags :
    Call(size, txVector, "WIFI_PREAMBLE_NONE", 5180, "LAST_MPDU_IN_AGGREGATE",
         incFlag, 0, MaxAmpduFrames)

NextAmpdu ==
  \/ AmpduFirst
  \/ AmpduMiddle
  \/ AmpduLast

SpecAmpdu == Init /\ [][NextAmpdu]_vars

(***************************************************************************)
(* The caller that goes through the mode catalog: one call at a time with  *)
(* a transmit vector of any mode of the catalog, on the accumulator the    *)
(* calls before it left, and then the step that takes the result.  The     *)
(* calls that commit an aggregate frame have a vector of AmpduVectors and  *)
(* one byte, and the accumulator holds at most MaxCalcFrames of them.      *)
(***************************************************************************)
\* The DMG transmit vectors: every DMG mode on a 2160 MHz channel, without
\* and with a training field.
DmgVectors ==
  {[mode |-> WifiMode(mode), channelWidth |-> 2160, nss |-> 1, ness |-> 0,
    shortGuardInterval |-> FALSE, stbc |-> FALSE, trainingFieldLength |-> trn] :
     mode \in {m \in DOMAIN WifiModes : IsDmgClass(WifiModes[m].modClass)},
     trn \in {0, 1}}

\* The channel width a mode of the DSSS and OFDM classes is made for, in
\* MHz.
WidthOf(mode) ==
  CASE WifiModes[mode].modClass
         \in {"WIFI_MOD_CLASS_DSSS", "WIFI_MOD_CLASS_HR_DSSS"} -> 22
    [] mode \in {"OfdmRate3MbpsBW10MHz", "OfdmRate4_5MbpsBW10MHz",
                 "OfdmRate6MbpsBW10MHz", "OfdmRate9MbpsBW10MHz",
                 "OfdmRate12MbpsBW10MHz", "OfdmRate18MbpsBW10MHz",
                 "OfdmRate24MbpsBW10MHz", "OfdmRate27MbpsBW10MHz"} -> 10
    [] mode \in {"OfdmRate1_5MbpsBW5MHz", "OfdmRate2_25MbpsBW5MHz",
                 "OfdmRate3MbpsBW5MHz", "OfdmRate4_5MbpsBW5MHz",
                 "OfdmRate6MbpsBW5MHz", "OfdmRate9MbpsBW5MHz",
                 "OfdmRate12MbpsBW5MHz", "OfdmRate13_5MbpsBW5MHz"} -> 5
    [] OTHER -> 20

\* One transmit vector for every DSSS, HR-DSSS, ERP-OFDM and OFDM mode.
LegacyVectors ==
  {[mode |-> WifiMode(mode), channelWidth |-> WidthOf(mode), nss |-> 1, ness |-> 0,
    shortGuardInterval |-> FALSE, stbc |-> FALSE] :
     mode \in {m \in DOMAIN WifiModes :
                 WifiModes[m].modClass
                   \in {"WIFI_MOD_CLASS_DSSS", "WIFI_MOD_CLASS_HR_DSSS",
                        "WIFI_MOD_CLASS_ERP_OFDM", "WIFI_MOD_CLASS_OFDM"}}}

CatalogVectors == TxVectors \cup LegacyVectors \cup DmgVectors

\* One transmit vector for every mode outside the catalog.
ForeignVectors ==
  {[mode |-> WifiMode(mode), channelWidth |-> 2160, nss |-> 1, ness |-> 0,
    shortGuardInterval |-> FALSE, stbc |-> FALSE, trainingFieldLength |-> 0] :
     mode \in DOMAIN ForeignModes}

CallVectors == CatalogVectors \cup ForeignVectors

CalcSizes == 0 .. MaxCalcSize

\* The frequencies of the calls: the DSSS classes are called with every
\* frequency, HT also with the frequencies at both ends of the 2.4 GHz
\* band, the other classes with those of their bands.
CatalogFrequenciesOf(txVector) ==
  CASE GetModulationClass(txVector.mode)
         \in {"WIFI_MOD_CLASS_DSSS", "WIFI_MOD_CLASS_HR_DSSS"} -> Frequencies
    [] GetModulationClass(txVector.mode) = "WIFI_MOD_CLASS_HT" ->
         Frequencies \cup {2399, 2400, 2500, 2501}
    [] OTHER -> FrequenciesOf(txVector)

\* The sizes of the calls for a whole frame (NORMAL_MPDU): CalcSizes, 100
\* and 1000 bytes.
SizesOf(mpdutype) ==
  IF mpdutype = "NORMAL_MPDU" THEN CalcSizes \cup {100, 1000} ELSE CalcSizes

\* The vectors of the committed calls: those of the aggregates and one of
\* class HT.
CommitVectors == AmpduVectors \cup {v \in TxVectors : v.mode.uniqueName = "HtMcs21"}

\* The instance runs and the caller has no call under way.
CallerReady == status = "ok" /\ calc.fn = "none"

\* The call of a function that returns a Time: the accumulator becomes the
\* one of the outcome r, plcp is the time added to the payload duration.
CatalogCall(fn, size, txVector, preamble, frequency, mpdutype, incFlag, r, plcp) ==
  /\ Accumulates(txVector, preamble, mpdutype, incFlag)
       => /\ txVector \in CommitVectors
          /\ frequency \in Frequencies
          /\ size = 1
          /\ r.m_totalAmpduSize <= MaxCalcFrames
  /\ m_totalAmpduSize' = r.m_totalAmpduSize
  /\ m_totalAmpduNumSymbols' = r.m_totalAmpduNumSymbols
  /\ status' = r.status
  /\ calc' = [fn |-> fn, size |-> size, txVector |-> txVector,
              preamble |-> preamble, frequency |-> frequency,
              mpdutype |-> mpdutype, incFlag |-> incFlag,
              totalSize |-> m_totalAmpduSize,
              totalSymbols |-> m_totalAmpduNumSymbols,
              status |-> r.status,
              duration |-> IF r.status \in {"ok", "undefined"}
                           THEN r.duration + plcp
                           ELSE 0]
  /\ burst' = BurstAfter(burst, r, size, txVector, preamble, frequency,
                         mpdutype, incFlag, plcp)
  /\ UNCHANGED <<probe, ieVars, modeVars>>

\* GetPayloadDuration (size, txVector, preamble, frequency, mpdutype, incFlag)
GetPayloadDurationOfCatalog ==
  /\ CallerReady
  /\ \E txVector \in CallVectors, mpdutype \in MpduTypes, incFlag \in IncFlags :
       \E size \in SizesOf(mpdutype), preamble \in PreamblesOf(txVector),
          frequency \in CatalogFrequenciesOf(txVector) :
         CatalogCall("GetPayloadDuration", size, txVector, preamble, frequency,
                     mpdutype, incFlag,
                     PayloadDuration(m_totalAmpduSize, m_totalAmpduNumSymbols, size,
                                     txVector, preamble, frequency, mpdutype, incFlag),
                     0)

\* CalculateTxDuration (size, txVector, preamble, frequency, mpdutype, incFlag)
CalculateTxDurationOfCatalog ==
  /\ CallerReady
  /\ \E txVector \in CallVectors, mpdutype \in MpduTypes, incFlag \in IncFlags :
       \E size \in SizesOf(mpdutype) \cap {0, 1, 100},
          preamble \in PreamblesOf(txVector),
          frequency \in FrequenciesOf(txVector) :
         CatalogCall("CalculateTxDuration", size, txVector, preamble, frequency,
                     mpdutype, incFlag,
                     IF PlcpStatus(txVector, preamble) = "fatal"
                     THEN Outcome("fatal", 0, m_totalAmpduSize, m_totalAmpduNumSymbols)
                     ELSE PayloadDuration(m_totalAmpduSize, m_totalAmpduNumSymbols,
                                          size, txVector, preamble, frequency,
                                          mpdutype, incFlag),
                     CalculatePlcpPreambleAndHeaderDuration(txVector, preamble))

\* The call of a function that has no part in the aggregation: st is how it
\* ends and value what it returns.
PlainCall(fn, size, txVector, preamble, st, value) ==
  /\ status' = st
  /\ calc' = [fn |-> fn, size |-> size, txVector |-> txVector,
              preamble |-> preamble, frequency |-> 0,
              mpdutype |-> "NORMAL_MPDU", incFlag |-> 0,
              totalSize |-> m_totalAmpduSize,
              totalSymbols |-> m_totalAmpduNumSymbols,
              status |-> st,
              duration |-> IF st = "ok" THEN value ELSE 0]
  /\ UNCHANGED <<m_totalAmpduSize, m_totalAmpduNumSymbols, probe, burst, ieVars,
                 modeVars>>

\* GetPlcpPreambleDuration (txVector, preamble)
GetPlcpPreambleDurationOfCatalog ==
  /\ CallerReady
  /\ \E txVector \in CallVectors :
       \E preamble \in PreamblesOf(txVector) :
         PlainCall("GetPlcpPreambleDuration", 0, txVector, preamble,
                   PlcpStatus(txVector, preamble),
                   GetPlcpPreambleDuration(txVector, preamble))

\* GetPlcpHeaderDuration (txVector, preamble)
GetPlcpHeaderDurationOfCatalog ==
  /\ CallerReady
  /\ \E txVector \in CallVectors :
       \E preamble \in PreamblesOf(txVector) :
         PlainCall("GetPlcpHeaderDuration", 0, txVector, preamble,
                   PlcpStatus(txVector, preamble),
                   GetPlcpHeaderDuration(txVector, preamble))

\* CaluclateTransmittedBits (size, txvector)
CaluclateTransmittedBitsOfCatalog ==
  /\ CallerReady
  /\ \E txVector \in CallVectors, size \in SizesOf("NORMAL_MPDU") :
       PlainCall("CaluclateTransmittedBits", size, txVector, "WIFI_PREAMBLE_NONE",
                 CaluclateTransmittedBits(size, txVector).status,
                 CaluclateTransmittedBits(size, txVector).duration)

\* The caller has the value returned and is ready for its next call.
TakeResult ==
  /\ status = "ok"
  /\ calc.fn # "none"
  /\ calc' = IdleCalc
  /\ UNCHANGED <<phyVars, ieVars, modeVars>>

NextCalc ==
  \/ GetPayloadDurationOfCatalog
  \/ CalculateTxDurationOfCatalog
  \/ GetPlcpPreambleDurationOfCatalog
  \/ GetPlcpHeaderDurationOfCatalog
  \/ CaluclateTransmittedBitsOfCatalog
  \/ TakeResult

SpecCalc == Init /\ [][NextCalc]_vars

\* A call of the accessor of a mode, WifiPhy::Get<name> ().
GetMode ==
  \E name \in ModeAccessors :
    LET st == AccessorCall([m_itemList |-> m_itemList, modeStatic |-> modeStatic,
                            creations |-> creations], name)
    IN /\ status = "ok"
       /\ m_itemList' = st.m_itemList
       /\ modeStatic' = st.modeStatic
       /\ creations' = st.creations
       /\ UNCHANGED <<phyVars, ieVars, calcVars>>

NextModes == GetMode

SpecModes == Init /\ [][NextModes]_vars

NextIE ==
  \/ AddWifiInformationElement
  \/ GetInformationElement
  \/ GetInformationElementsSerializedSize
  \/ SerializeInformationElements
  \/ DeserializeInformationElements
  \/ NewMgtFrame

SpecIE == Init /\ [][NextIE]_vars

(***************************************************************************)
(* Properties of the A-MPDU accumulator                                    *)
(***************************************************************************)

\* C1: for a well-ordered burst of k >= 2 frames committed with one transmit
\* vector of class OFDM, ERP-OFDM, HT or VHT, the sum of the k returned
\* payload durations differs from the payload duration of one Normal frame
\* of the total size by at most one symbol duration.
C1_AggregationConservation ==
  (burst.phase = "done" /\ burst.uniform /\ Len(burst.sizes) >= 2)
    => Abs(SumSeq(burst.durs)
             - NormalDuration(SumSeq(burst.sizes), burst.txVector,
                              burst.frequency))
         <= SymbolDuration(burst.txVector)

\* C2: in a well-ordered burst (First on a zero accumulator, then Middles,
\* then Last, all with the same transmit vector) the assertion
\* m_totalAmpduNumSymbols <= numSymbols never fails, and no frame of the
\* burst gets a negative duration.
C2_AssertionHoldsInWellOrderedBurst ==
  /\ status = "assert" => ~(burst.phase = "open" /\ burst.uniform)
  /\ (burst.phase \in {"open", "done"} /\ burst.uniform)
       => \A k \in 1 .. Len(burst.durs) : burst.durs[k] >= 0

C4_AccumulatorZeroBetweenBursts ==
  /\ burst.phase \in {"idle", "done", "missed"}
       => (m_totalAmpduSize = 0 /\ m_totalAmpduNumSymbols = DoubleZero)
  /\ burst.phase = "open" => ~DoubleAtMost(m_totalAmpduNumSymbols, 0)
  /\ (burst.phase \in {"open", "done"} /\ burst.uniform)
       => burst.durs = FreshBurstDurations(burst)

C4_Witness ==
  /\ burst.phase = "open"
  /\ burst.uniform
  /\ Len(burst.sizes) = MaxFrames - 1
  /\ ~DoubleAtMost(m_totalAmpduNumSymbols, 0)

\* C5: a call that does not commit (flag other than 1, and every
\* four-argument overload) leaves m_totalAmpduSize and
\* m_totalAmpduNumSymbols as they were, so between the committed calls of a
\* burst the accumulator holds exactly what the committed calls put there.
C5_QueriesLeaveAccumulator ==
  /\ [][probe' => UNCHANGED <<m_totalAmpduSize, m_totalAmpduNumSymbols>>]_vars
  /\ []((burst.phase = "open" /\ burst.uniform)
          => m_totalAmpduSize = SumSeq(burst.sizes))

C5_Witness ==
  /\ probe
  /\ status = "ok"
  /\ burst.phase = "open"
  /\ m_totalAmpduSize > 0

(***************************************************************************)
(* Properties of the information element container                         *)
(***************************************************************************)

\* C6: for a container built by AddWifiInformationElement calls only,
\* DeserializeInformationElements run on the bytes written by
\* SerializeInformationElements, into an empty container, ends normally and
\* gives exactly the (type id, body) pairs the serialized container held.
C6_RoundTrip ==
  ieLog.trip
    => (ieStatus = "ok" /\ Contents(m_map, heap) = ieLog.sent)

\* The sum over the stored elements of 2 + bodyLength.
RECURSIVE SumOfRecordSizes(_, _, _)
SumOfRecordSizes(map, h, k) ==
  IF k > Len(map)
  THEN 0
  ELSE (IF map[k].ptr = NullPtr THEN 0 ELSE 2 + Len(h[map[k].ptr].body))
         + SumOfRecordSizes(map, h, k + 1)

\* C7: on every container reachable by Add, GetInformationElement and
\* Deserialize, GetInformationElementsSerializedSize and
\* SerializeInformationElements end normally, the size returned is the
\* number of bytes Serialize writes, and that number is the sum over the
\* stored elements of 2 + bodyLength.
C7_SizeMatchesSerialize ==
  /\ ieLog.op \in {"size", "serialize"} => ieStatus = "ok"
  /\ (ieLog.op = "size" /\ ieStatus = "ok")
       => /\ ieLog.retSize = Len(SerializeFrom(m_map, heap, 1))
          /\ ieLog.retSize = SumOfRecordSizes(m_map, heap, 1)
  /\ (ieLog.op = "serialize" /\ ieStatus = "ok")
       => Len(wire) = SumOfRecordSizes(m_map, heap, 1)

\* The records of a set of (id, body) pairs in ascending id order.
RECURSIVE CanonicalBytes(_)
CanonicalBytes(pairs) ==
  IF pairs = {}
  THEN <<>>
  ELSE LET least == CHOOSE p \in pairs : \A q \in pairs : p[1] <= q[1]
       IN Serialize([id |-> least[1], body |-> least[2]])
            \o CanonicalBytes(pairs \ {least})

\* The type ids of the records of well-formed bytes, from offset i on.
RECURSIVE RecordIds(_, _)
RecordIds(bytes, i) ==
  IF i > Len(bytes)
  THEN <<>>
  ELSE <<bytes[i]>> \o RecordIds(bytes, i + 2 + bytes[i + 1])

\* C8: for a container built by Add calls, SerializeInformationElements
\* writes the records in strictly ascending type-id order: the bytes depend
\* only on the set of elements held, not on the order they were added in.
C8_AscendingIdOrder ==
  (ieLog.op = "serialize" /\ ieStatus = "ok" /\ ieLog.adds)
    => /\ wire = CanonicalBytes(Contents(m_map, heap))
       /\ \A j, k \in 1 .. Len(RecordIds(wire, 1)) :
            j < k => RecordIds(wire, 1)[j] < RecordIds(wire, 1)[k]

\* Elements with ids 1 then 0 were added, and the record of id 0 comes first.
C8_Witness ==
  /\ ieLog.op = "serialize"
  /\ ieStatus = "ok"
  /\ ieLog.adds
  /\ Len(m_map) = 2
  /\ ieLog.descending
  /\ RecordIds(wire, 1) = <<0, 1>>

\* C9: GetInformationElement ends normally and returns the stored element,
\* or null for an absent id, and after a lookup of an absent id the total
\* size and serialize operations still end normally.
C9_LookupNeverBreaks ==
  /\ ieLog.op = "get"
       => /\ ieStatus = "ok"
          /\ ieLog.retElem
               = (IF MapFind(m_map, ieLog.id) = 0
                  THEN NullElement
                  ELSE Deref(heap, m_map[MapFind(m_map, ieLog.id)].ptr))
  /\ (ieLog.absentLookup /\ ieLog.op \in {"size", "serialize"})
       => ieStatus = "ok"

\* C10: after Add calls and Deserialize runs the container holds at most one
\* element of each type id, and for every id written the entry of that id
\* holds the element of that id with the body written last.
C10_LastWriteWins ==
  ieStatus = "ok"
    => /\ \A j, k \in 1 .. Len(m_map) :
            (j # k /\ m_map[j].ptr # NullPtr /\ m_map[k].ptr # NullPtr)
              => heap[m_map[j].ptr].id # heap[m_map[k].ptr].id
       /\ \A w \in ieLog.latest :
            /\ MapFind(m_map, w[1]) # 0
            /\ Deref(heap, m_map[MapFind(m_map, w[1])].ptr)
                 = [id |-> w[1], body |-> w[2]]

(***************************************************************************)
(* C11: a record whose id matches no case label                            *)
(***************************************************************************)
\* C11: when DeserializeInformationElements reads a record whose id matches
\* no case label, no element of another type is created, modified or stored
\* for that record: every entry of the container holds an element of the
\* type its key names.
C11_UnknownIdTouchesNoOtherElement ==
  \A k \in 1 .. Len(m_map) :
    m_map[k].ptr # NullPtr => heap[m_map[k].ptr].id = m_map[k].key

(***************************************************************************)
(* Properties of the duration functions over the mode catalog              *)
(***************************************************************************)
\* The outcome of the last GetPayloadDuration call had it been made with
\* size + 1 bytes.
NextSizeOutcome ==
  PayloadDuration(calc.totalSize, calc.totalSymbols, calc.size + 1,
                  calc.txVector, calc.preamble, calc.frequency, calc.mpdutype,
                  calc.incFlag)

\* C12: for every mode of the catalog, with all other arguments fixed and
\* role Normal, the payload duration returned for size bytes is at most the
\* one returned for size + 1 bytes.
C12_MonotoneInSize ==
  (/\ calc.fn = "GetPayloadDuration"
   /\ calc.txVector.mode.uniqueName \in DOMAIN WifiModes
   /\ Role(calc.mpdutype, calc.preamble) = "Normal"
   /\ calc.status \in {"ok", "undefined"}
   /\ NextSizeOutcome.status \in {"ok", "undefined"})
    => calc.duration <= NextSizeOutcome.duration

\* C13: for every modulation class, the payload duration of a Normal frame
\* of size 0 is well defined and not negative: the call divides by no zero,
\* converts no value out of range and ends in no fatal error.
C13_ZeroSizeWellDefined ==
  (/\ calc.fn = "GetPayloadDuration"
   /\ calc.txVector.mode.uniqueName \in DOMAIN WifiModes
   /\ calc.size = 0
   /\ Role(calc.mpdutype, calc.preamble) = "Normal")
    => (calc.status = "ok" /\ calc.duration >= 0)

\* The symbol duration C14 names for a channel width (ns), and the data
\* bits of one symbol at the data rate of the mode (kbit/s).
C14_SymbolDuration ==
  CASE calc.txVector.channelWidth = 10 -> 8000
    [] calc.txVector.channelWidth = 5 -> 16000
    [] OTHER -> 4000

C14_RateTimesSymbol ==
  GetDataRate(calc.txVector.mode, calc.txVector.channelWidth, 1) * (C14_SymbolDuration \div 1000)

C14_NormalOfdmCall ==
  /\ calc.fn = "GetPayloadDuration"
  /\ GetModulationClass(calc.txVector.mode)
       \in {"WIFI_MOD_CLASS_OFDM", "WIFI_MOD_CLASS_ERP_OFDM"}
  /\ calc.txVector.channelWidth \in {5, 10, 20}
  /\ Role(calc.mpdutype, calc.preamble) = "Normal"

\* C14: for OFDM and a Normal MPDU sent with a preamble the payload duration
\* is ceil((16 + 8 * size + 6) / bitsPerSymbol) symbols of 4, 8 or 16 us for
\* a 20, 10 or 5 MHz channel, where bitsPerSymbol = dataRate * symbolDuration
\* is an integer; 1000 bytes at 6 Mbps and 20 MHz take 1340 us; ERP-OFDM
\* returns the same value plus 6 us.
C14_OfdmNormalDuration ==
  C14_NormalOfdmCall
    => /\ calc.status = "ok"
       /\ C14_RateTimesSymbol % 1000 = 0
       /\ calc.duration
            = Ceil(16 + 8 * calc.size + 6, C14_RateTimesSymbol \div 1000)
                * C14_SymbolDuration
              + (IF GetModulationClass(calc.txVector.mode) = "WIFI_MOD_CLASS_ERP_OFDM"
                 THEN 6000
                 ELSE 0)
       /\ (calc.txVector.mode.uniqueName = "OfdmRate6Mbps" /\ calc.size = 1000)
            => calc.duration = 335 * 4000

C14_Witness ==
  /\ C14_NormalOfdmCall
  /\ calc.txVector.mode.uniqueName = "OfdmRate13_5MbpsBW5MHz"
  /\ calc.size = 1000
  /\ calc.duration = 38 * 16000

\* The data rates C15 names, in kbit/s.
C15_DataRate ==
  CASE calc.txVector.mode.uniqueName = "DsssRate1Mbps" -> 1000
    [] calc.txVector.mode.uniqueName = "DsssRate2Mbps" -> 2000
    [] calc.txVector.mode.uniqueName = "DsssRate5_5Mbps" -> 5500
    [] calc.txVector.mode.uniqueName = "DsssRate11Mbps" -> 11000

C15_DsssCall ==
  /\ calc.fn = "GetPayloadDuration"
  /\ GetModulationClass(calc.txVector.mode)
       \in {"WIFI_MOD_CLASS_DSSS", "WIFI_MOD_CLASS_HR_DSSS"}

\* C15: for the DSSS and HR-DSSS modes the payload duration is
\* ceil(8 * size / dataRateMbps) us for every size, MPDU role, preamble,
\* frequency and commit flag, and the call leaves the aggregation accumulator
\* as it found it; 100 bytes at 1 Mbps take 800 us.
C15_DsssDuration ==
  C15_DsssCall
    => /\ calc.status = "ok"
       /\ calc.duration = 1000 * Ceil(8 * calc.size * 1000, C15_DataRate)
       /\ m_totalAmpduSize = calc.totalSize
       /\ m_totalAmpduNumSymbols = calc.totalSymbols
       /\ (calc.txVector.mode.uniqueName = "DsssRate1Mbps" /\ calc.size = 100)
            => calc.duration = 800 * 1000

C15_Witness ==
  /\ C15_DsssCall
  /\ calc.txVector.mode.uniqueName = "DsssRate5_5Mbps"
  /\ calc.size = 100
  /\ calc.incFlag = 1
  /\ calc.frequency = 5180
  /\ calc.preamble = "WIFI_PREAMBLE_NONE"
  /\ calc.duration = 146 * 1000
  /\ m_totalAmpduSize > 0

C16_TxCall == calc.fn = "CalculateTxDuration"

\* The outcome of GetPayloadDuration for the arguments and the accumulator
\* of the call under way.
C16_Payload ==
  PayloadDuration(calc.totalSize, calc.totalSymbols, calc.size, calc.txVector,
                  calc.preamble, calc.frequency, calc.mpdutype, calc.incFlag)

\* C16: CalculateTxDuration returns the PLCP preamble and header duration
\* plus the payload duration and changes the accumulator exactly as the
\* payload call does; with no preamble the overhead is zero for every
\* class, so the frames of a well-ordered burst carry the overhead once, on
\* the First.
C16_TxDurationIsSum ==
  /\ C16_TxCall
       => /\ calc.status = C16_Payload.status
          /\ m_totalAmpduSize = C16_Payload.m_totalAmpduSize
          /\ m_totalAmpduNumSymbols = C16_Payload.m_totalAmpduNumSymbols
          /\ calc.status \in {"ok", "undefined"}
               => /\ calc.duration
                       = CalculatePlcpPreambleAndHeaderDuration(calc.txVector,
                                                                calc.preamble)
                           + C16_Payload.duration
                  /\ calc.preamble = "WIFI_PREAMBLE_NONE"
                       => calc.duration = C16_Payload.duration
                  /\ calc.preamble # "WIFI_PREAMBLE_NONE"
                       => calc.duration > C16_Payload.duration
  /\ (burst.uniform /\ burst.phase \in {"open", "done"})
       => burst.plcp \in
            {0} \cup {CalculatePlcpPreambleAndHeaderDuration(burst.txVector, p) :
                        p \in PreamblesOf(burst.txVector) \ {"WIFI_PREAMBLE_NONE"}}

C16_Witness ==
  /\ C16_TxCall
  /\ calc.mpdutype = "LAST_MPDU_IN_AGGREGATE"
  /\ calc.preamble = "WIFI_PREAMBLE_NONE"
  /\ calc.status = "ok"
  /\ calc.duration > 0
  /\ burst.phase = "done"
  /\ burst.uniform
  /\ Len(burst.sizes) = 3
  /\ burst.plcp > 0

\* The classes the duration calculator names, and the class, code rate and
\* constellation size of the mode of the call under way.
C17_NamedClasses ==
  {"WIFI_MOD_CLASS_OFDM", "WIFI_MOD_CLASS_ERP_OFDM", "WIFI_MOD_CLASS_HT",
   "WIFI_MOD_CLASS_VHT", "WIFI_MOD_CLASS_DSSS", "WIFI_MOD_CLASS_HR_DSSS",
   "WIFI_MOD_CLASS_DMG_CTRL", "WIFI_MOD_CLASS_DMG_SC", "WIFI_MOD_CLASS_DMG_OFDM",
   "WIFI_MOD_CLASS_DMG_LP_SC"}

C17_Class == calc.txVector.mode.modClass

C17_NumericPath ==
  calc.fn \in {"GetPlcpPreambleDuration", "GetPlcpHeaderDuration",
               "GetPayloadDuration", "CaluclateTransmittedBits"}

\* The class is not one the path computes a value for.
C17_UnsupportedClass ==
  IF calc.fn = "CaluclateTransmittedBits"
  THEN C17_Class \notin {"WIFI_MOD_CLASS_DMG_SC", "WIFI_MOD_CLASS_DMG_OFDM"}
  ELSE C17_Class \notin C17_NamedClasses

\* A DMG SC or DMG OFDM mode with a code rate other than 1/4, 1/2, 13/16,
\* 3/4, 5/8, or a constellation size other than 2, 4, 16, 64 (and 256 for
\* DMG SC).
C17_UnsupportedCoding ==
  /\ C17_Class \in {"WIFI_MOD_CLASS_DMG_SC", "WIFI_MOD_CLASS_DMG_OFDM"}
  /\ \/ calc.txVector.mode.codeRate
          \notin {<<1, 4>>, <<1, 2>>, <<13, 16>>, <<3, 4>>, <<5, 8>>}
     \/ calc.txVector.mode.constellation
          \notin (IF C17_Class = "WIFI_MOD_CLASS_DMG_SC"
                  THEN {2, 4, 16, 64, 256}
                  ELSE {2, 4, 16, 64})

\* The calls that examine the class (every path but a preamble or header
\* call with no preamble) and those that examine the coding.
C17_ExaminesClass ==
  /\ C17_NumericPath
  /\ calc.fn \in {"GetPlcpPreambleDuration", "GetPlcpHeaderDuration"}
       => calc.preamble # "WIFI_PREAMBLE_NONE"

C17_ExaminesCoding ==
  calc.fn \in {"GetPayloadDuration", "CaluclateTransmittedBits"}

\* The other fatal error of the payload path: a symbol class called with a
\* combination of preamble and MPDU type that is no role.
C17_WrongCombination ==
  /\ calc.fn = "GetPayloadDuration"
  /\ IsSymbolClass(C17_Class)
  /\ Role(calc.mpdutype, calc.preamble) = "Wrong"

\* C17 as stated: in every numeric path (preamble, header and payload
\* duration, transmitted bit count) an unsupported modulation class, code
\* rate or constellation size ends in a fatal error and no value is
\* returned.
C17_EveryPathFatal ==
  (C17_NumericPath /\ (C17_UnsupportedClass \/ C17_UnsupportedCoding))
    => calc.status = "fatal"

\* C17 as amended: a path ends in the fatal error exactly when it examines
\* the class and the class is unsupported, or examines the coding and the
\* code rate or constellation size is unsupported (or the combination of
\* preamble and MPDU type is wrong); a preamble or header call
\* with no preamble returns zero whatever the class; no DMG SC or DMG OFDM
\* mode of the catalog ends in the fatal error.
C17_FatalWhereExamined ==
  /\ C17_NumericPath
       => /\ (calc.status = "fatal")
               <=> \/ C17_ExaminesClass /\ C17_UnsupportedClass
                   \/ C17_ExaminesCoding /\ C17_UnsupportedCoding
                   \/ C17_WrongCombination
          /\ calc.status = "fatal" => calc.duration = 0
          /\ (~C17_ExaminesClass) => (calc.status = "ok" /\ calc.duration = 0)
  /\ (/\ calc.fn # "none"
      /\ calc.txVector.mode.uniqueName \in DOMAIN WifiModes
      /\ C17_Class \in {"WIFI_MOD_CLASS_DMG_SC", "WIFI_MOD_CLASS_DMG_OFDM"})
       => calc.status = "ok"

C17_Witness ==
  /\ calc.fn = "CaluclateTransmittedBits"
  /\ calc.txVector.mode.uniqueName = "ForeignOfdmRate5_6"
  /\ calc.size = 100
  /\ calc.status = "fatal"
  /\ status = "fatal"

\* C18: every mode the catalog offers was created exactly once by the
\* static constructor, so from the start of the process on every accessor
\* has its mode, under a name no other mode has.
C18_CreatedOnceAtStart ==
  /\ \A name \in ModeAccessors :
       /\ modeStatic[name] \in DOMAIN m_itemList
       /\ m_itemList[modeStatic[name]] = name
       /\ creations[name] = 1
  /\ \A i, j \in DOMAIN m_itemList : m_itemList[i] = m_itemList[j] => i = j

\* C19: for a legacy OFDM mode and a preamble other than None the PLCP
\* preamble takes 64, 32 and 16 us for the channel widths 5, 10 and 20 MHz,
\* four symbols of the 16, 8 and 4 us the header and the payload use for
\* the same widths.
C19_PreambleByWidth ==
  (/\ calc.fn = "GetPlcpPreambleDuration"
   /\ GetModulationClass(calc.txVector.mode) = "WIFI_MOD_CLASS_OFDM"
   /\ calc.preamble # "WIFI_PREAMBLE_NONE"
   /\ calc.txVector.channelWidth \in {5, 10, 20})
    => /\ calc.status = "ok"
       /\ calc.duration = (CASE calc.txVector.channelWidth = 5 -> 64000
                             [] calc.txVector.channelWidth = 10 -> 32000
                             [] calc.txVector.channelWidth = 20 -> 16000)
       /\ calc.duration = 4 * GetPlcpHeaderDuration(calc.txVector, calc.preamble)
       /\ calc.duration = 4 * OfdmSymbolDuration(calc.txVector)

C20_HtVhtCall ==
  /\ calc.fn = "GetPayloadDuration"
  /\ GetModulationClass(calc.txVector.mode)
       \in {"WIFI_MOD_CLASS_HT", "WIFI_MOD_CLASS_VHT"}
  /\ calc.status = "ok"

\* The time the call under way returns beyond the time of its symbols, which
\* is what the same call returns at 5180 MHz; for a Normal frame, whose
\* symbols are whole, that time is a multiple of the symbol duration.
C20_Tail ==
  calc.duration
    - PayloadDuration(calc.totalSize, calc.totalSymbols, calc.size, calc.txVector,
                      calc.preamble, 5180, calc.mpdutype, calc.incFlag).duration

C20_InBand(frequency) == frequency >= 2400 /\ frequency <= 2500

C20_Terminates ==
  \/ calc.mpdutype = "NORMAL_MPDU" /\ calc.preamble # "WIFI_PREAMBLE_NONE"
  \/ calc.mpdutype = "LAST_MPDU_IN_AGGREGATE" /\ calc.preamble = "WIFI_PREAMBLE_NONE"

\* The frames of the burst whose returned time is 6 us beyond the time the
\* same burst gets at 5180 MHz.
C20_FramesWithTail ==
  {i \in DOMAIN burst.durs :
     burst.durs[i] = 6000 + Replay(burst.sizes, 1, burst.phase = "done", 0,
                                   DoubleZero, burst.txVector, 5180)[i]}

\* C20: in the HT/VHT payload branch the 6 us tail is added only at a
\* frequency of 2400 to 2500 MHz and only to the frame that ends the
\* transmission, a Normal frame with a preamble or a Last frame without one;
\* First and Middle frames never carry it, and a well-ordered burst at
\* 2.4 GHz carries it once, on its Last frame.
C20_TailOnTerminatingFrame ==
  /\ C20_HtVhtCall
       => /\ C20_Tail \in {0, 6000}
          /\ C20_Tail = 6000 => (C20_InBand(calc.frequency) /\ C20_Terminates)
          /\ (/\ GetModulationClass(calc.txVector.mode) = "WIFI_MOD_CLASS_HT"
              /\ C20_InBand(calc.frequency)
              /\ C20_Terminates)
               => C20_Tail = 6000
          /\ (calc.mpdutype = "NORMAL_MPDU" /\ ~calc.txVector.shortGuardInterval)
               => (calc.duration - C20_Tail) % 4000 = 0
  /\ (/\ burst.uniform
      /\ burst.phase \in {"open", "done"}
      /\ burst.n > 0
      /\ GetModulationClass(burst.txVector.mode) = "WIFI_MOD_CLASS_HT")
       => C20_FramesWithTail
            = IF burst.phase = "done" /\ C20_InBand(burst.frequency)
              THEN {Len(burst.durs)}
              ELSE {}

C20_Witness ==
  /\ C20_HtVhtCall
  /\ calc.frequency = 2412
  /\ calc.mpdutype = "LAST_MPDU_IN_AGGREGATE"
  /\ calc.preamble = "WIFI_PREAMBLE_NONE"
  /\ C20_Tail = 6000
  /\ burst.phase = "done"
  /\ burst.uniform
  /\ Len(burst.durs) = 3
  /\ C20_FramesWithTail = {3}

(***************************************************************************)
(* C21: whole symbols.  The claim: for OFDM, ERP-OFDM, HT and VHT, in      *)
(* every role (Normal, First, Middle, Last), the returned payload duration *)
(* minus the 6 us tail is an integer multiple of the symbol duration.      *)
(***************************************************************************)
C21_SymbolCall ==
  /\ calc.fn = "GetPayloadDuration"
  /\ calc.status = "ok"
  /\ IsSymbolClass(GetModulationClass(calc.txVector.mode))

C21_Role == Role(calc.mpdutype, calc.preamble)

\* The 6 us a call of the class, band and role returns on top of its symbols.
C21_Tail ==
  IF \/ GetModulationClass(calc.txVector.mode) = "WIFI_MOD_CLASS_ERP_OFDM"
     \/ /\ GetModulationClass(calc.txVector.mode) = "WIFI_MOD_CLASS_HT"
        /\ calc.frequency >= 2400
        /\ calc.frequency <= 2500
        /\ C21_Role \in {"Normal", "Last"}
  THEN 6000
  ELSE 0

C21_SymbolTime ==
  CASE GetModulationClass(calc.txVector.mode)
         \in {"WIFI_MOD_CLASS_HT", "WIFI_MOD_CLASS_VHT"} ->
         (IF calc.txVector.shortGuardInterval THEN 3600 ELSE 4000)
    [] calc.txVector.channelWidth = 10 -> 8000
    [] calc.txVector.channelWidth = 5 -> 16000
    [] OTHER -> 4000

C21_WholeSymbols ==
  /\ calc.duration >= C21_Tail
  /\ (calc.duration - C21_Tail) % C21_SymbolTime = 0

\* C21 as claimed: every call that returns a duration for a symbol-based
\* class, in any of the four roles, returns a whole number of symbols plus
\* the tail.
C21_EveryRoleWhole == C21_SymbolCall => C21_WholeSymbols

\* The accumulator the call found holds a whole number of symbols.
C21_AccumulatorWhole ==
  calc.totalSymbols.e = 0 /\ calc.totalSymbols.u % SymbolUnit = 0

\* C21 as amended: a Normal MPDU, and a Last MPDU that finds a whole number
\* of symbols in the accumulator, return a whole number of symbols plus the
\* tail.
C21_WholeWhereRoundedUp ==
  (/\ C21_SymbolCall
   /\ \/ C21_Role = "Normal"
      \/ C21_Role = "Last" /\ C21_AccumulatorWhole)
    => C21_WholeSymbols

C21_Witness ==
  /\ C21_SymbolCall
  /\ C21_Role = "Last"
  /\ C21_AccumulatorWhole
  /\ C21_Tail = 6000
  /\ calc.duration > 6000
  /\ C21_WholeSymbols

(***************************************************************************)
(* The caller of GetPlcpHtTrainingSymbolDuration: an HT transmit vector    *)
(* with 1 to MaxNss spatial streams and 0 to MaxNess extension spatial     *)
(* streams, and any preamble kind.                                         *)
(***************************************************************************)
MaxNss == 8

MaxNess == 4

TrainingVectors ==
  {[mode |-> WifiMode("HtMcs0"), channelWidth |-> 20, nss |-> nss,
    ness |-> ness, shortGuardInterval |-> FALSE, stbc |-> FALSE] :
     nss \in 1 .. MaxNss, ness \in 0 .. MaxNess}

GetPlcpHtTrainingSymbolDurationOfCaller ==
  /\ CallerReady
  /\ \E txVector \in TrainingVectors, preamble \in WifiPreambles :
       PlainCall("GetPlcpHtTrainingSymbolDuration", 0, txVector, preamble, "ok",
                 GetPlcpHtTrainingSymbolDuration(preamble, txVector))

NextTraining == GetPlcpHtTrainingSymbolDurationOfCaller \/ TakeResult

SpecTraining == Init /\ [][NextTraining]_vars

(***************************************************************************)
(* C22: GetPlcpHtTrainingSymbolDuration.  The data training-field count is *)
(* Nss for Nss < 3, 4 for Nss in 3..4, 6 for Nss in 5..6, else 8; the      *)
(* extension count is Ness for Ness < 3, else 4; the result is             *)
(* 4 + 4*Ndltf + 4*Neltf us for HT-Mixed, 4*Ndltf + 4*Neltf us for         *)
(* HT-Greenfield, 4 + 4*Ndltf us for VHT and 0 for every other preamble.   *)
(***************************************************************************)
C22_Ndltf ==
  CASE calc.txVector.nss \in {1, 2} -> calc.txVector.nss
    [] calc.txVector.nss \in {3, 4} -> 4
    [] calc.txVector.nss \in {5, 6} -> 6
    [] OTHER -> 8

C22_Neltf ==
  CASE calc.txVector.ness \in {0, 1, 2} -> calc.txVector.ness
    [] OTHER -> 4

C22_TrainingFields ==
  calc.fn = "GetPlcpHtTrainingSymbolDuration"
    => /\ calc.status = "ok"
       /\ calc.preamble = "WIFI_PREAMBLE_HT_MF"
            => calc.duration = 1000 * (4 + 4 * C22_Ndltf + 4 * C22_Neltf)
       /\ calc.preamble = "WIFI_PREAMBLE_HT_GF"
            => calc.duration = 1000 * (4 * C22_Ndltf + 4 * C22_Neltf)
       /\ calc.preamble = "WIFI_PREAMBLE_VHT"
            => calc.duration = 1000 * (4 + 4 * C22_Ndltf)
       /\ calc.preamble
            \in {"WIFI_PREAMBLE_LONG", "WIFI_PREAMBLE_SHORT", "WIFI_PREAMBLE_NONE"}
            => calc.duration = 0

C22_Witness ==
  /\ calc.fn = "GetPlcpHtTrainingSymbolDuration"
  /\ calc.preamble = "WIFI_PREAMBLE_HT_MF"
  /\ calc.txVector.nss = 5
  /\ calc.txVector.ness = 3
  /\ calc.duration = 44000

(***************************************************************************)
(* C23: DMG control without a training field, size >= 7.  With             *)
(* Ncw = 1 + ceil((size-6)*8/168), the last-codeword bit count             *)
(* (size-6)*8 - (Ncw-2)*Ldpcw never goes below zero, the summed            *)
(* differentially encoded symbol count is 168*(Ncw-1) + 8*(size-6), and    *)
(* the duration is ceil(32 * symbols / 1.76) ns.                           *)
(***************************************************************************)
C23_ControlCall ==
  /\ calc.fn = "GetPayloadDuration"
  /\ GetModulationClass(calc.txVector.mode) = "WIFI_MOD_CLASS_DMG_CTRL"
  /\ calc.txVector.trainingFieldLength = 0
  /\ calc.size >= 7

\* ceil((size-6)*8/168), found as the least count of 168-bit codewords that
\* hold the bits.
C23_Ncw ==
  1 + CHOOSE n \in 0 .. calc.size : /\ 168 * n >= (calc.size - 6) * 8
                                    /\ 168 * (n - 1) < (calc.size - 6) * 8

C23_Ldpcw ==
  CHOOSE w \in 0 .. 168 : /\ w * (C23_Ncw - 1) >= (calc.size - 6) * 8
                          /\ (w - 1) * (C23_Ncw - 1) < (calc.size - 6) * 8

C23_Symbols == 168 * (C23_Ncw - 1) + 8 * (calc.size - 6)

C23_ControlDuration ==
  C23_ControlCall
    => /\ calc.status = "ok"
       /\ DmgCtrlNcw(calc.size) = C23_Ncw
       /\ DmgCtrlLdplcw(calc.size, C23_Ncw, C23_Ldpcw) >= 0
       /\ DmgCtrlLdplcw(calc.size, C23_Ncw, C23_Ldpcw) <= (calc.size - 6) * 8
       /\ DmgCtrlDencodedSymbols(calc.size, C23_Ncw, C23_Ldpcw) = C23_Symbols
       /\ DmgCtrlChipsSet(calc.size) = {32 * C23_Symbols}
       /\ 44 * calc.duration >= 32 * C23_Symbols * 25
       /\ 44 * (calc.duration - 1) < 32 * C23_Symbols * 25

C23_Witness ==
  /\ C23_ControlCall
  /\ calc.size = 100
  /\ C23_Ncw = 6
  /\ DmgCtrlLdplcw(calc.size, C23_Ncw, C23_Ldpcw) = 148
  /\ calc.duration = 28946

(***************************************************************************)
(* C24: DMG-SC.  For every DMG-SC mode of the catalog and every size, the  *)
(* coded bits are the payload bits times 4, 2, 16/13, 4/3, 8/5 (rounded    *)
(* up) for the code rates 1/4, 1/2, 13/16, 3/4, 5/8; Ncw = ceil(coded bits *)
(* / 672); Nblks = ceil(Ncw*672 / (448*log2(constellation))); the duration *)
(* is ceil((Nblks*512 + 64)/1.76) ns without a training field and the      *)
(* larger of that value and the minimum floor with one.                    *)
(***************************************************************************)
C24_ScCall ==
  /\ calc.fn = "GetPayloadDuration"
  /\ GetModulationClass(calc.txVector.mode) = "WIFI_MOD_CLASS_DMG_SC"
  /\ calc.txVector.mode.uniqueName \in DOMAIN WifiModes

\* The least count of units of `unit` that holds `amount`.
C24_Least(amount, unit) ==
  CHOOSE n \in 0 .. amount : n * unit >= amount /\ (n - 1) * unit < amount

C24_CodedBits ==
  CASE calc.txVector.mode.codeRate = <<1, 4>> -> calc.size * 8 * 4
    [] calc.txVector.mode.codeRate = <<1, 2>> -> calc.size * 8 * 2
    [] calc.txVector.mode.codeRate = <<13, 16>> -> C24_Least(calc.size * 8 * 16, 13)
    [] calc.txVector.mode.codeRate = <<3, 4>> -> C24_Least(calc.size * 8 * 4, 3)
    [] calc.txVector.mode.codeRate = <<5, 8>> -> C24_Least(calc.size * 8 * 8, 5)

C24_Log2 ==
  CHOOSE k \in 1 .. 8 : calc.txVector.mode.constellation = 2 ^ k

C24_Ncw == C24_Least(C24_CodedBits, 672)

C24_Nblks == C24_Least(C24_Ncw * 672, 448 * C24_Log2)

\* ceil((Nblks*512 + 64)/1.76), with 1/1.76 = 25/44.
C24_Time == C24_Least((C24_Nblks * 512 + 64) * 25, 44)

C24_ScDuration ==
  C24_ScCall
    => /\ calc.status = "ok"
       /\ calc.txVector.trainingFieldLength = 0 => calc.duration = C24_Time
       /\ calc.txVector.trainingFieldLength # 0
            => calc.duration = IF C24_Time > OFDMSCMin THEN C24_Time ELSE OFDMSCMin

C24_Witness ==
  /\ C24_ScCall
  /\ calc.txVector.mode.uniqueName = "DMG_MCS5"
  /\ calc.txVector.trainingFieldLength # 0
  /\ calc.size = 100
  /\ C24_CodedBits = 985
  /\ C24_Nblks = 3
  /\ C24_Time = 910
  /\ calc.duration = OFDMSCMin

(***************************************************************************)
(* C25: CaluclateTransmittedBits and GetPayloadDuration pack alike.  For   *)
(* the same (size, mode), DMG-SC: both have the same block count Nblks,    *)
(* with bits = 3328 + 1024 + 64*(Nblks+1) + Nblks*Ncbpb and un-floored     *)
(* duration ceil((512*Nblks+64)/1.76) ns; DMG-OFDM: both have the same     *)
(* symbol count Nsym, with bits = 3328 + 672 + Nsym*Ncbps and un-floored   *)
(* duration 242*Nsym ns; every other class is a fatal error in             *)
(* CaluclateTransmittedBits.                                               *)
(***************************************************************************)
C25_BitsCall ==
  /\ calc.fn = "CaluclateTransmittedBits"
  /\ calc.txVector.mode.uniqueName \in DOMAIN WifiModes

C25_Class == GetModulationClass(calc.txVector.mode)

\* What GetPayloadDuration returns for the size and the mode of the call
\* when no training field is requested.
C25_Payload ==
  PayloadDuration(0, DoubleZero, calc.size,
                  [calc.txVector EXCEPT !.trainingFieldLength = 0],
                  "WIFI_PREAMBLE_LONG", calc.frequency, "NORMAL_MPDU", 0)

C25_Log2 ==
  CHOOSE k \in 1 .. 8 : calc.txVector.mode.constellation = 2 ^ k

\* The block or symbol counts that give the bits the call returned.
C25_CountsOfBits ==
  {n \in 0 .. calc.size + 2 :
     calc.duration
       = IF C25_Class = "WIFI_MOD_CLASS_DMG_SC"
         THEN 3328 + 1024 + 64 * (n + 1) + n * 448 * C25_Log2
         ELSE 3328 + 672 + n * 336 * C25_Log2}

\* The block or symbol counts that give the duration of the payload.
C25_CountsOfPayload ==
  {n \in 0 .. calc.size + 2 :
     IF C25_Class = "WIFI_MOD_CLASS_DMG_SC"
     THEN /\ 44 * C25_Payload.duration >= (512 * n + 64) * 25
          /\ 44 * (C25_Payload.duration - 1) < (512 * n + 64) * 25
     ELSE C25_Payload.duration = 242 * n}

C25_SamePacking ==
  C25_BitsCall
    => IF C25_Class \in {"WIFI_MOD_CLASS_DMG_SC", "WIFI_MOD_CLASS_DMG_OFDM"}
       THEN /\ calc.status = "ok"
            /\ C25_Payload.status = "ok"
            /\ Cardinality(C25_CountsOfBits) = 1
            /\ C25_CountsOfBits = C25_CountsOfPayload
       ELSE calc.status = "fatal"

C25_Witness ==
  /\ C25_BitsCall
  /\ calc.txVector.mode.uniqueName = "DMG_MCS5"
  /\ calc.size = 100
  /\ C25_CountsOfBits = {3}
  /\ C25_CountsOfPayload = {3}
  /\ calc.duration = 3328 + 1024 + 64 * 4 + 3 * 448
  /\ C25_Payload.duration = 910

(***************************************************************************)
(* C26: a lookup leaves the container as it was                            *)
(***************************************************************************)
\* The keys of the container, in order.
C26_Keys(map) == [k \in 1 .. Len(map) |-> map[k].key]

\* C26: GetInformationElement changes nothing in the container: for present
\* and for absent ids alike, the key set, the result of
\* GetInformationElementsSerializedSize and the bytes written by
\* SerializeInformationElements are the same after the lookup as before it.
C26_LookupChangesNothing ==
  [][GetInformationElement
       => /\ C26_Keys(m_map') = C26_Keys(m_map)
          /\ SerializedSizeFrom(m_map', heap', 1, 0)
               = SerializedSizeFrom(m_map, heap, 1, 0)
          /\ SerializeFrom(m_map', heap', 1) = SerializeFrom(m_map, heap, 1)]_vars

(***************************************************************************)
(* C27: every entry holds an element of its own key, stored once           *)
(***************************************************************************)
\* C27: after DeserializeInformationElements has returned, every entry of
\* the container holds an element whose own type id equals the key, and no
\* element object is stored under two different keys: a record with an id
\* outside the recognised set never causes the element parsed for the
\* previous record to be re-parsed or stored under the new key.
C27_EntriesKeepTheirOwnElement ==
  (ieStatus = "ok" /\ ~ieLog.adds /\ ~ieLog.absentLookup)
    => /\ \A k \in 1 .. Len(m_map) :
            /\ m_map[k].ptr # NullPtr
            /\ heap[m_map[k].ptr].id = m_map[k].key
       /\ \A j, k \in 1 .. Len(m_map) :
            j # k => m_map[j].ptr # m_map[k].ptr

(***************************************************************************)
(* C28: what a DeserializeInformationElements call writes                  *)
(***************************************************************************)
\* The ids of the records of a well-formed input.
C28_IdsOf(bytes) == {w[1] : w \in WrittenByInput({}, bytes, 1)}

\* The entry of the key holds the same element in both containers.
C28_SameEntry(key, map, h, map1, h1) ==
  /\ MapFind(map1, key) # 0
  /\ (map1[MapFind(map1, key)].ptr = NullPtr)
       = (map[MapFind(map, key)].ptr = NullPtr)
  /\ Deref(h1, map1[MapFind(map1, key)].ptr)
       = Deref(h, map[MapFind(map, key)].ptr)

\* C28: DeserializeInformationElements writes only the entries whose ids
\* occur in the input: every entry already in the container under an id
\* that does not occur in the input is left unchanged, and on well-formed
\* input the loop ends with the returned cursor at the end of the buffer.
C28_WritesOnlyInputIds ==
  [][\A bytes \in Inputs \cup {wire} :
       DeserializeInput(bytes)
         => /\ ieStatus' = "ok"
            /\ DeserializeLoop(bytes, 1, m_map, heap, NullPtr).cursor
                 = Len(bytes) + 1
            /\ \A k \in 1 .. Len(m_map) :
                 m_map[k].key \notin C28_IdsOf(bytes)
                   => C28_SameEntry(m_map[k].key, m_map, heap, m_map', heap')]_vars

(***************************************************************************)
(* The encoder count of the HT/VHT payload formula over the VHT MCS table  *)
(***************************************************************************)
VhtMcsNames ==
  <<"VhtMcs0", "VhtMcs1", "VhtMcs2", "VhtMcs3", "VhtMcs4", "VhtMcs5",
    "VhtMcs6", "VhtMcs7", "VhtMcs8", "VhtMcs9">>

\* GetVhtMcs0 .. GetVhtMcs9: CreateWifiMcs (name, index, WIFI_MOD_CLASS_VHT).
GetVhtMcs(index) ==
  [uniqueName |-> VhtMcsNames[index + 1], mcs |-> index,
   modClass |-> "WIFI_MOD_CLASS_VHT"]

VhtChannelWidths == {20, 40, 80, 160}

MaxVhtNss == 4

NesVectors ==
  {[mode |-> GetVhtMcs(index), channelWidth |-> w, nss |-> nss, ness |-> 0,
    shortGuardInterval |-> FALSE, stbc |-> FALSE] :
     index \in 0 .. Len(VhtMcsNames) - 1, w \in VhtChannelWidths,
     nss \in 1 .. MaxVhtNss}

\* The encoder count GetPayloadDuration computes for a VHT transmit vector.
GetNesOfCaller ==
  /\ CallerReady
  /\ \E txVector \in NesVectors :
       PlainCall("GetNes", 0, txVector, "WIFI_PREAMBLE_VHT", "ok",
                 GetNes(txVector))

NextNes == GetNesOfCaller \/ TakeResult

SpecNes == Init /\ [][NextNes]_vars

(***************************************************************************)
(* C29: the encoder count is a threshold function of the MCS index         *)
(***************************************************************************)
\* The encoder count of the last call's vector with another VHT MCS index.
C29_NesAt(index) == GetNes([calc.txVector EXCEPT !.mode = GetVhtMcs(index)])

\* C29: the encoder count Nes is always one of 1, 2, 3, 4, 6, and for every
\* fixed channel width (20, 40, 80, 160 MHz) and Nss (1..4) it is
\* non-decreasing over VHT MCS 0..9.
C29_NesNonDecreasing ==
  calc.fn = "GetNes"
    => /\ calc.duration \in {1, 2, 3, 4, 6}
       /\ \A lower \in 0 .. calc.txVector.mode.mcs :
            C29_NesAt(lower) <= calc.duration

(***************************************************************************)
(* C30: the pairs of MPDU type and preamble                                *)
(***************************************************************************)
\* The last call was GetPayloadDuration for a symbol-based class.
C30_RoleCall ==
  /\ calc.fn = "GetPayloadDuration"
  /\ IsSymbolClass(GetModulationClass(calc.txVector.mode))

C30_WrongPair ==
  \/ calc.mpdutype = "NORMAL_MPDU" /\ calc.preamble = "WIFI_PREAMBLE_NONE"
  \/ calc.mpdutype = "LAST_MPDU_IN_AGGREGATE" /\ calc.preamble # "WIFI_PREAMBLE_NONE"

\* The call ended in the fatal error and the accumulator is as it found it.
C30_FatalAndUntouched ==
  /\ calc.status = "fatal"
  /\ m_totalAmpduSize = calc.totalSize
  /\ m_totalAmpduNumSymbols = calc.totalSymbols

\* C30 as claimed: a Normal MPDU with preamble None and a Last MPDU with a
\* preamble other than None end in the fatal error with the accumulator
\* unchanged; every other pair returns a duration.
C30_EveryOtherPairReturns ==
  C30_RoleCall
    => IF C30_WrongPair THEN C30_FatalAndUntouched ELSE calc.status = "ok"

\* C30 as amended: a Normal MPDU with preamble None and a Last MPDU with a
\* preamble other than None end in the fatal error with the accumulator
\* unchanged, also when the call commits; every other pair returns a
\* duration, except that a Last MPDU with preamble None that finds symbols
\* in the accumulator may end in the assertion on the accumulated symbols.
C30_WrongPairsAreFatal ==
  C30_RoleCall
    => IF C30_WrongPair
       THEN C30_FatalAndUntouched
       ELSE \/ calc.status = "ok"
            \/ /\ calc.status = "assert"
               /\ calc.mpdutype = "LAST_MPDU_IN_AGGREGATE"
               /\ calc.preamble = "WIFI_PREAMBLE_NONE"
               /\ calc.totalSymbols # DoubleZero

C30_Witness ==
  /\ C30_RoleCall
  /\ calc.mpdutype = "LAST_MPDU_IN_AGGREGATE"
  /\ calc.preamble = "WIFI_PREAMBLE_LONG"
  /\ calc.incFlag = 1
  /\ calc.totalSize > 0
  /\ C30_FatalAndUntouched

====
